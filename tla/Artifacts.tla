----------------------------- MODULE Artifacts ------------------------------
(***************************************************************************)
(* The commands that keep what the device returned in files: attestation   *)
(* (and attestation-file), endorse, proof, and verify, which reads the     *)
(* files back.  Runs follow one another in a process slot, slots run at    *)
(* the same time on the same files, and a run may be killed at any step.   *)
(*                                                                         *)
(* The exchange with the device is one step here (SwpStream and SwpReceive *)
(* model it); so is the decoding of an answer.  An answer is known by the  *)
(* signing session it comes from, and so is a proof request, by the tree   *)
(* in it.  Left out: --out-payload-cbor and --payload-cbor of attestation  *)
(* and endorse, whose payload holds none of the artifacts (see Requests).  *)
(***************************************************************************)
EXTENDS Integers, Sequences

CONSTANTS
  Slots,        \* process slots
  Program,      \* the commands each slot may run
  MaxSessions,  \* answers to signing requests (bound)
  MaxRuns,      \* runs of commands (bound)
  MaxKills,     \* runs that are killed (bound)
  MaxLate       \* write errors that show only when the file is closed (bound)

(* proof has three forms: as such it asks for a proof of the tree file;    *)
(* with --out-payload-cbor ("prepare") it writes that request to a file    *)
(* instead of sending it; with --payload-cbor ("prebuilt") it sends such a *)
(* file.  The two options exclude each other.                              *)
Proves == {"proof", "prebuilt"}
Commands == {"attestation", "endorse", "prepare", "verify"} \cup Proves
Files == {"tree", "attestation", "proof", "payload"}

ASSUME ArtifactsParameters ==
  /\ Program \in [Slots -> SUBSET Commands]
  /\ {MaxSessions, MaxRuns, MaxKills, MaxLate} \subseteq Nat

VARIABLES
  files,     \* content of each file
  at,        \* step of the run in each slot; "idle" between runs
  cmd,       \* its command
  port,      \* slots that hold a serial port open
  sent,      \* proof: the tree in the request that was sent
  reply,     \* the answer, or the request, as the content meant for each file
  left,      \* output files still to be written, in order
  wanted,    \* output files the run was asked for, less those it gave up
  seen,      \* verify: the tree it has read
  exit,      \* exit code of the last run
  quality,   \* what each session's answer is worth
  together,  \* sessions whose two files were on disk, whole, at one time
  runs, kills, late

run == <<cmd, sent, reply, left, wanted, seen>>
counters == <<runs, kills, late>>
avars == <<files, at, port, run, exit, quality, together, counters>>

(* Content: the bytes of a session's answer, whole or not.  An absent and  *)
(* an empty file are the same to read_binary_file's callers.               *)
Nothing == [of |-> 0, whole |-> FALSE]
Whole(s) == [of |-> s, whole |-> TRUE]
Torn(c) == [c EXCEPT !.whole = FALSE]
Content == [of : 0 .. MaxSessions, whole : BOOLEAN]

Unanswered == [f \in Files |-> Nothing]

NotExited == -1   \* the run goes on
Signalled == -2   \* the run was killed

(* Mutant: the tree is not bound to the attestation. *)
IgnoresRoots(t, a, payloadKnown) ==
  /\ t.whole /\ a.whole
  /\ quality[t.of] \in {"genuine"} \cup (IF payloadKnown THEN {} ELSE {"otherPayload"})

(* verify_attestation_bundle_verbose: both items decode, the tree's root   *)
(* is the attested one, its signature is good, and, where the request is   *)
(* known, the leaves are those of its source data.                         *)
Verifies(t, a, payloadKnown) ==
  /\ t.whole /\ a.whole
  /\ t.of = a.of
  /\ quality[t.of] \in {"genuine"} \cup (IF payloadKnown THEN {} ELSE {"otherPayload"})

Init ==
  /\ files = Unanswered
  /\ at = [p \in Slots |-> "idle"]
  /\ cmd = [p \in Slots |-> "none"]
  /\ port = {}
  /\ sent = [p \in Slots |-> Nothing]
  /\ reply = [p \in Slots |-> Unanswered]
  /\ left = [p \in Slots |-> << >>]
  /\ wanted = [p \in Slots |-> {}]
  /\ seen = [p \in Slots |-> Nothing]
  /\ exit = [p \in Slots |-> NotExited]
  /\ quality = << >>
  /\ together = {}
  /\ runs = 0 /\ kills = 0 /\ late = 0

-----------------------------------------------------------------------------
GoesTo(p, step) == at' = [at EXCEPT ![p] = step]

(* Every return is behind swp_transport_close. *)
Ends(p, code) ==
  /\ GoesTo(p, "idle")
  /\ exit' = [exit EXCEPT ![p] = code]
  /\ port' = port \ {p}

Starts(p) ==
  /\ at[p] = "idle"
  /\ runs < MaxRuns
  /\ runs' = runs + 1
  /\ \E c \in Program[p] : cmd' = [cmd EXCEPT ![p] = c]
  /\ GoesTo(p, "begin")
  /\ exit' = [exit EXCEPT ![p] = NotExited]
  /\ sent' = [sent EXCEPT ![p] = Nothing]
  /\ reply' = [reply EXCEPT ![p] = Unanswered]
  /\ left' = [left EXCEPT ![p] = << >>]
  /\ wanted' = [wanted EXCEPT ![p] = {}]
  /\ seen' = [seen EXCEPT ![p] = Nothing]
  /\ UNCHANGED <<files, port, quality, together, kills, late>>

(* Options, input files, fault injection or the port are not as needed. *)
Refuses(p) ==
  /\ at[p] = "begin" /\ cmd[p] # "verify"
  /\ Ends(p, 2)
  /\ UNCHANGED <<files, run, quality, together, counters>>

(* The request is encoded, the port opened, and the request sent; what is  *)
(* to be written afterwards is known from the options.                     *)
Sends(p, outputs) ==
  /\ at[p] = "begin"
  /\ GoesTo(p, "waiting")
  /\ port' = port \cup {p}
  /\ left' = [left EXCEPT ![p] = outputs]
  /\ wanted' = [wanted EXCEPT ![p] = {outputs[i] : i \in DOMAIN outputs}]
  /\ UNCHANGED <<files, cmd, reply, seen, exit, quality, together, counters>>

AttestationSends(p) ==
  /\ cmd[p] = "attestation"
  /\ Sends(p, <<"tree", "attestation">>)
  /\ UNCHANGED sent

(* endorse writes only the files it was given paths for. *)
EndorseSends(p) ==
  /\ cmd[p] = "endorse"
  /\ \E out \in {<< >>, <<"tree">>, <<"attestation">>, <<"tree", "attestation">>} :
       Sends(p, out)
  /\ UNCHANGED sent

(* Mutant: the tree file is read although a payload was given. *)
RequestFromTree(c) == "tree"

(* Where the tree to be proved is read from. *)
RequestFrom(c) == IF c = "prebuilt" THEN "payload" ELSE "tree"

(* proof sends the tree file as it finds it, or a payload file, whatever   *)
(* has become of the tree file meanwhile.                                  *)
ProofSends(p) ==
  /\ cmd[p] \in Proves
  /\ files[RequestFrom(cmd[p])] # Nothing
  /\ sent' = [sent EXCEPT ![p] = files[RequestFrom(cmd[p])]]
  /\ Sends(p, <<"proof">>)

(* With --out-payload-cbor no port is opened: what would be sent is what   *)
(* is to be written.                                                       *)
ProofPrepares(p) ==
  /\ at[p] = "begin" /\ cmd[p] = "prepare"
  /\ files["tree"] # Nothing
  /\ reply' = [reply EXCEPT ![p] = [Unanswered EXCEPT !["payload"] = files["tree"]]]
  /\ left' = [left EXCEPT ![p] = <<"payload">>]
  /\ wanted' = [wanted EXCEPT ![p] = {"payload"}]
  /\ GoesTo(p, "writes")
  /\ UNCHANGED <<files, cmd, port, sent, seen, exit, quality, together, counters>>

(* No complete answer in time, an error frame, or one of another class. *)
ReceiveFails(p) ==
  /\ at[p] = "waiting"
  /\ Ends(p, 1)
  /\ UNCHANGED <<files, run, quality, together, counters>>

(* A new session's answer; either part may be without bytes, and the       *)
(* attestation may be something that does not decode.                      *)
Answers(p) ==
  /\ at[p] = "waiting"
  /\ Len(quality) < MaxSessions
  /\ \E q \in {"genuine", "otherPayload", "bad"} : quality' = Append(quality, q)
  /\ LET s == Len(quality) + 1 IN
     \E t \in {Nothing, Whole(s)}, a \in {Nothing, Torn(Whole(s)), Whole(s)} :
       reply' = [reply EXCEPT ![p] = [Unanswered EXCEPT !["tree"] = t, !["attestation"] = a]]

(* attestation keeps the port open while it writes. *)
AttestationReceives(p) ==
  /\ cmd[p] = "attestation"
  /\ Answers(p)
  /\ IF reply'[p]["tree"] = Nothing
     THEN Ends(p, 1)
     ELSE GoesTo(p, "writes") /\ UNCHANGED <<port, exit>>
  /\ UNCHANGED <<files, cmd, sent, left, wanted, seen, together, counters>>

(* Mutant: the port stays open while endorse writes. *)
EndorseKeepsPort(p) ==
  /\ cmd[p] = "endorse"
  /\ Answers(p)
  /\ IF ~reply'[p]["attestation"].whole
     THEN Ends(p, 2)
     ELSE GoesTo(p, "writes") /\ UNCHANGED <<port, exit>>
  /\ UNCHANGED <<files, cmd, sent, left, wanted, seen, together, counters>>

(* endorse closes the port and extracts the fields before it writes. *)
EndorseReceives(p) ==
  /\ cmd[p] = "endorse"
  /\ Answers(p)
  /\ IF ~reply'[p]["attestation"].whole
     THEN Ends(p, 2)
     ELSE GoesTo(p, "writes") /\ port' = port \ {p} /\ UNCHANGED exit
  /\ UNCHANGED <<files, cmd, sent, left, wanted, seen, together, counters>>

(* The device proves a leaf of the tree it was sent, if that decodes; its  *)
(* answer may still be one that decode_proof_summary refuses later.        *)
ProofReceives(p) ==
  /\ cmd[p] \in Proves /\ at[p] = "waiting"
  /\ sent[p].whole
  /\ \E answer \in {sent[p], Torn(sent[p])} :
       reply' = [reply EXCEPT ![p] = [Unanswered EXCEPT !["proof"] = answer]]
  /\ GoesTo(p, "writes")
  /\ port' = port \ {p}
  /\ UNCHANGED <<files, cmd, sent, left, wanted, seen, exit, quality, together, counters>>

-----------------------------------------------------------------------------
(* Writing one file: opened and emptied, then filled. *)

Output(p) == Head(left[p])

Writes(p, c) ==
  /\ files' = [files EXCEPT ![Output(p)] = c]
  /\ together' = together \cup
       {s \in 1 .. MaxSessions : files'["tree"] = Whole(s) /\ files'["attestation"] = Whole(s)}

(* Mutant: the first file that is written ends the list. *)
NextFileForgetsRest(p) ==
  /\ left' = [left EXCEPT ![p] = << >>]
  /\ GoesTo(p, "writes")
  /\ UNCHANGED <<port, exit>>

NextFile(p) ==
  /\ left' = [left EXCEPT ![p] = Tail(@)]
  /\ GoesTo(p, "writes")
  /\ UNCHANGED <<port, exit>>

(* Mutant: a file that cannot be written is passed over by every command. *)
WriteFailureIgnored(p) ==
  /\ wanted' = [wanted EXCEPT ![p] = @ \ {Output(p)}]
  /\ NextFile(p)

(* attestation and proof stop at a file they cannot write; endorse goes on *)
(* to the next one.                                                        *)
WriteFails(p) ==
  /\ wanted' = [wanted EXCEPT ![p] = @ \ {Output(p)}]
  /\ IF cmd[p] = "endorse" THEN NextFile(p) ELSE Ends(p, 2) /\ UNCHANGED left

(* attestation has written the tree when it finds it has no attestation. *)
AttestationMissing(p) ==
  /\ at[p] = "writes" /\ cmd[p] = "attestation"
  /\ left[p] = <<"attestation">> /\ reply[p]["attestation"] = Nothing
  /\ Ends(p, 1)
  /\ UNCHANGED <<files, run, quality, together, counters>>

ToWrite(p) ==
  /\ at[p] = "writes" /\ left[p] # << >>
  /\ cmd[p] = "attestation" => reply[p][Output(p)] # Nothing

OpensFile(p) ==
  /\ ToWrite(p)
  /\ Writes(p, Nothing)
  /\ GoesTo(p, "writing")
  /\ UNCHANGED <<port, run, exit, quality, counters>>

CannotOpenFile(p) ==
  /\ ToWrite(p)
  /\ WriteFails(p)
  /\ UNCHANGED <<files, cmd, sent, reply, seen, quality, together, counters>>

(* Some of the bytes have left the stream's buffer. *)
Spills(p) ==
  /\ at[p] = "writing"
  /\ reply[p][Output(p)] # Nothing /\ files[Output(p)] = Nothing
  /\ Writes(p, Torn(reply[p][Output(p)]))
  /\ UNCHANGED <<at, port, run, exit, quality, counters>>

CompletesFile(p) ==
  /\ at[p] = "writing"
  /\ Writes(p, reply[p][Output(p)])
  /\ NextFile(p)
  /\ UNCHANGED <<cmd, sent, reply, wanted, seen, quality, counters>>

(* The write fails while the bytes are handed to the stream. *)
WriteBreaks(p) ==
  /\ at[p] = "writing"
  /\ WriteFails(p)
  /\ UNCHANGED <<files, cmd, sent, reply, seen, quality, together, counters>>

(* The bytes fit the stream's buffer, so the write fails only when the     *)
(* stream is destroyed, after write_binary_file has decided to return true.*)
(* An attestation never does: its signature alone is larger than that.     *)
FailsLate(p) ==
  /\ at[p] = "writing" /\ Output(p) # "attestation"
  /\ late < MaxLate
  /\ late' = late + 1
  /\ NextFile(p)
  /\ UNCHANGED <<files, cmd, sent, reply, wanted, seen, quality, together, runs, kills>>

WroteAll(p) == at[p] = "writes" /\ left[p] = << >>

(* attestation verifies what it received, not what is in the files. *)
AttestationVerifies(p) ==
  /\ WroteAll(p) /\ cmd[p] = "attestation"
  /\ Ends(p, IF Verifies(reply[p]["tree"], reply[p]["attestation"], TRUE) THEN 0 ELSE 1)
  /\ UNCHANGED <<files, run, quality, together, counters>>

(* endorse, and proof --out-payload-cbor, end with the last file. *)
LastFileEnds(p) ==
  /\ WroteAll(p) /\ cmd[p] \in {"endorse", "prepare"}
  /\ Ends(p, 0)
  /\ UNCHANGED <<files, run, quality, together, counters>>

(* The proof is decoded and validated once it is in its file. *)
ProofDecodes(p) ==
  /\ WroteAll(p) /\ cmd[p] \in Proves
  /\ Ends(p, IF reply[p]["proof"].whole THEN 0 ELSE 1)
  /\ UNCHANGED <<files, run, quality, together, counters>>

(* verify reads one file after the other. *)

VerifyReadsTree(p) ==
  /\ at[p] = "begin" /\ cmd[p] = "verify"
  /\ IF files["tree"] = Nothing
     THEN Ends(p, 2) /\ UNCHANGED seen
     ELSE /\ seen' = [seen EXCEPT ![p] = files["tree"]]
          /\ GoesTo(p, "readTree")
          /\ UNCHANGED <<port, exit>>
  /\ UNCHANGED <<files, cmd, sent, reply, left, wanted, quality, together, counters>>

VerifyReadsAttestation(p) ==
  /\ at[p] = "readTree"
  /\ Ends(p, IF files["attestation"] = Nothing THEN 2
             ELSE IF Verifies(seen[p], files["attestation"], FALSE) THEN 0 ELSE 1)
  /\ UNCHANGED <<files, run, quality, together, counters>>

(* The process dies; the system closes its port. *)
Killed(p) ==
  /\ at[p] # "idle"
  /\ kills < MaxKills
  /\ kills' = kills + 1
  /\ Ends(p, Signalled)
  /\ UNCHANGED <<files, run, quality, together, runs, late>>

Step(p) ==
  \/ Starts(p) \/ Refuses(p)
  \/ AttestationSends(p) \/ EndorseSends(p) \/ ProofSends(p)
  \/ ProofPrepares(p)
  \/ ReceiveFails(p)
  \/ AttestationReceives(p) \/ EndorseReceives(p) \/ ProofReceives(p)
  \/ AttestationMissing(p)
  \/ OpensFile(p) \/ CannotOpenFile(p) \/ Spills(p) \/ CompletesFile(p)
  \/ WriteBreaks(p) \/ FailsLate(p)
  \/ AttestationVerifies(p) \/ LastFileEnds(p) \/ ProofDecodes(p)
  \/ VerifyReadsTree(p) \/ VerifyReadsAttestation(p)
  \/ Killed(p)

Next == \E p \in Slots : Step(p)

Spec == Init /\ [][Next]_avars

-----------------------------------------------------------------------------
(* Properties. *)

(* Variables keep their types; a port is open only between the request and *)
(* the end of the exchange, or while attestation writes.                   *)
ArtifactsTypeOK ==
  /\ files \in [Files -> Content]
  /\ at \in [Slots -> {"idle", "begin", "waiting", "writes", "writing", "readTree"}]
  /\ cmd \in [Slots -> Commands \cup {"none"}]
  /\ sent \in [Slots -> Content] /\ seen \in [Slots -> Content]
  /\ reply \in [Slots -> [Files -> Content]]
  /\ left \in [Slots -> Seq(Files)] /\ wanted \in [Slots -> SUBSET Files]
  /\ exit \in [Slots -> {0, 1, 2, NotExited, Signalled}]
  /\ together \subseteq 1 .. MaxSessions
  /\ port \subseteq Slots
  /\ \A p \in port : at[p] = "waiting" \/ (cmd[p] = "attestation" /\ at[p] # "idle")

Succeeded(p, c) == at[p] = "idle" /\ cmd[p] = c /\ exit[p] = 0

(* After an attestation command that exited with 0, and until the next run *)
(* of its slot, the two files hold one session's answer and that answer    *)
(* verifies, whatever earlier runs, failed or killed, had left in them.    *)
(* (One slot writes; with two, each may overwrite half of the other's.)    *)
AttestationIsKept ==
  \A p \in Slots : Succeeded(p, "attestation") =>
    Verifies(files["tree"], files["attestation"], TRUE)

(* The same while no write fails at close, which the code does not see.    *)
AttestationKeptIfFlushed == late = 0 => AttestationIsKept

(* After an endorse command that exited with 0, the files it was told to   *)
(* write hold its answer, except those it could not open or write, which   *)
(* do not change its exit code, or lost at close.                          *)
EndorsementIsKept ==
  late = 0 => \A p \in Slots : Succeeded(p, "endorse") =>
    \A f \in wanted[p] : files[f] = reply[p][f]

(* After a proof command that exited with 0, the proof file holds a proof  *)
(* about the tree in the tree file, if the run built its request.  If it   *)
(* was given one with --payload-cbor, the proof is about the tree in that, *)
(* which may be one the tree file held long ago: proof checks nothing of   *)
(* it against the tree file, and a payload that --out-payload-cbor wrote   *)
(* has the tree of its own run.  (Unless a file was lost at close; and     *)
(* with one slot that writes: nothing ties a proof to a tree file that     *)
(* another process replaces during the exchange.)                          *)
ProofIsAboutTheTree ==
  late = 0 => \A p \in Slots :
    /\ Succeeded(p, "proof") =>
         files["proof"].whole /\ files["proof"].of = files["tree"].of
    /\ Succeeded(p, "prebuilt") =>
         files["proof"].whole /\ files["proof"].of = files["payload"].of
    /\ Succeeded(p, "prepare") => files["payload"] = files["tree"]

(* verify reads the two files at two moments while another process may be  *)
(* replacing them, and after crashes that left files of two sessions, or   *)
(* halves of files: a pair it accepts was on disk as a pair at some time.  *)
VerifiedWereTogether ==
  \A p \in Slots : Succeeded(p, "verify") =>
    seen[p].of \in together /\ quality[seen[p].of] # "bad"
=============================================================================

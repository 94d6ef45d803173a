--------------------------- MODULE ArtifactsProofs ---------------------------
(***************************************************************************)
(* Proofs about Artifacts for any number of slots, sessions, runs, kills   *)
(* and late errors: types for any slots, and what the files hold when one  *)
(* slot writes them while any number of others verify them.                *)
(***************************************************************************)
EXTENDS Artifacts, TLAPS, SequenceTheorems

Qualities == {"genuine", "otherPayload", "bad"}

(* The lists of files a command may still have to write. *)
Outputs ==
  {<< >>, <<"tree">>, <<"attestation">>, <<"tree", "attestation">>, <<"proof">>,
   <<"payload">>}

FilesIn(l) == {l[i] : i \in DOMAIN l}

ToCome(p) == FilesIn(left[p])

(* Content that comes from a session there was. *)
Known == {c \in Content : c.of <= Len(quality) /\ (c.whole => c.of >= 1)}

(* The types, and what they need to be kept. *)
TypeInv ==
  /\ ArtifactsTypeOK
  /\ quality \in Seq(Qualities) /\ Len(quality) <= MaxSessions
  /\ \A p \in Slots : left[p] \in Outputs
  /\ \A p \in Slots : at[p] = "writing" => left[p] # << >>

Active(p) == at[p] \in {"waiting", "writes", "writing"}

OutputsFor(c) ==
  IF c \in Proves THEN {<<"proof">>, << >>}
  ELSE IF c = "prepare" THEN {<<"payload">>, << >>}
  ELSE {<< >>, <<"tree">>, <<"attestation">>, <<"tree", "attestation">>}

(* Every content is known, and a run is at a step of its own command. *)
RoleInv ==
  /\ files \in [Files -> Known]
  /\ seen \in [Slots -> Known] /\ sent \in [Slots -> Known]
  /\ reply \in [Slots -> [Files -> Known]]
  /\ \A p \in Slots :
       /\ cmd[p] \in Program[p] \cup {"none"}
       /\ at[p] # "idle" => cmd[p] # "none"
       /\ at[p] = "readTree" => cmd[p] = "verify"
       /\ Active(p) => cmd[p] # "verify" /\ left[p] \in OutputsFor(cmd[p])

-----------------------------------------------------------------------------
(* The lists. *)

LEMMA RestOfOutputs ==
  ASSUME NEW l \in Outputs
  PROVE  /\ l \in Seq(Files)
         /\ l # << >> => Head(l) \in Files /\ Tail(l) \in Outputs
         /\ l = <<"tree">> => Head(l) = "tree" /\ Tail(l) = << >>
         /\ l = <<"attestation">> => Head(l) = "attestation" /\ Tail(l) = << >>
         /\ l = <<"tree", "attestation">> => Head(l) = "tree" /\ Tail(l) = <<"attestation">>
         /\ l = <<"proof">> => Head(l) = "proof" /\ Tail(l) = << >>
         /\ l = <<"payload">> => Head(l) = "payload" /\ Tail(l) = << >>
<1>1. Tail(<<"tree", "attestation">>) = <<"attestation">>
  OBVIOUS
<1>2. /\ Tail(<<"tree">>) = << >> /\ Tail(<<"attestation">>) = << >> /\ Tail(<<"proof">>) = << >>
      /\ Tail(<<"payload">>) = << >>
  OBVIOUS
<1>3. /\ Head(<<"tree">>) = "tree" /\ Head(<<"attestation">>) = "attestation"
      /\ Head(<<"proof">>) = "proof" /\ Head(<<"tree", "attestation">>) = "tree"
      /\ Head(<<"payload">>) = "payload"
  OBVIOUS
<1>4. l \in Seq(Files)
  <2>1. /\ "tree" \in Files /\ "attestation" \in Files /\ "proof" \in Files
        /\ "payload" \in Files
    BY DEF Files
  <2>2. << >> \in Seq(Files)
    OBVIOUS
  <2>3. /\ <<"tree">> \in Seq(Files) /\ <<"attestation">> \in Seq(Files)
        /\ <<"proof">> \in Seq(Files) /\ <<"payload">> \in Seq(Files)
    BY <2>1
  <2>4. <<"tree", "attestation">> \in Seq(Files)
    BY <2>1
  <2> QED
    BY <2>2, <2>3, <2>4 DEF Outputs
<1> QED
  BY <1>1, <1>2, <1>3, <1>4 DEF Outputs, Files

LEMMA FilesInOutputs ==
  ASSUME NEW l \in Outputs
  PROVE  /\ FilesIn(l) \subseteq Files
         /\ l = << >> => FilesIn(l) = {}
         /\ l = <<"tree", "attestation">> => FilesIn(l) = {"tree", "attestation"}
         /\ l = <<"proof">> => FilesIn(l) = {"proof"}
         /\ l = <<"payload">> => FilesIn(l) = {"payload"}
         /\ l # << >> =>
              /\ Head(l) \in FilesIn(l)
              /\ FilesIn(Tail(l)) = FilesIn(l) \ {Head(l)}
              /\ "tree" \in FilesIn(l) => Head(l) = "tree"
<1>1. /\ FilesIn(<< >>) = {}
      /\ FilesIn(<<"tree">>) = {"tree"}
      /\ FilesIn(<<"attestation">>) = {"attestation"}
      /\ FilesIn(<<"tree", "attestation">>) = {"tree", "attestation"}
      /\ FilesIn(<<"proof">>) = {"proof"}
      /\ FilesIn(<<"payload">>) = {"payload"}
  BY DEF FilesIn
<1> QED
  BY <1>1, RestOfOutputs DEF Outputs, Files

LEMMA TornContent ==
  ASSUME NEW c \in Content
  PROVE  Torn(c) \in Content /\ Torn(c).of = c.of /\ Torn(c).whole = FALSE
BY DEF Torn, Content

-----------------------------------------------------------------------------
(* Types. *)

LEMMA InitTypeInv == Init => TypeInv
<1> SUFFICES ASSUME Init PROVE TypeInv
  OBVIOUS
<1>1. /\ MaxSessions \in Nat /\ Nothing \in Content
  BY ArtifactsParameters DEF Nothing, Content
<1>2. Unanswered \in [Files -> Content]
  BY <1>1 DEF Unanswered
<1>3. << >> \in Outputs /\ << >> \in Seq(Files)
  BY DEF Outputs
<1>4. quality \in Seq(Qualities) /\ Len(quality) <= MaxSessions
  BY <1>1 DEF Init
<1>5. ArtifactsTypeOK
  BY <1>1, <1>2, <1>3 DEF Init, ArtifactsTypeOK, NotExited
<1> QED
  BY <1>3, <1>4, <1>5 DEF Init, TypeInv

LEMMA TypeStep == TypeInv /\ [Next]_avars => TypeInv'
<1> SUFFICES ASSUME TypeInv, [Next]_avars PROVE TypeInv'
  OBVIOUS
<1>1. /\ files \in [Files -> Content]
      /\ at \in [Slots -> {"idle", "begin", "waiting", "writes", "writing", "readTree"}]
      /\ cmd \in [Slots -> Commands \cup {"none"}]
      /\ sent \in [Slots -> Content] /\ seen \in [Slots -> Content]
      /\ reply \in [Slots -> [Files -> Content]]
      /\ left \in [Slots -> Seq(Files)] /\ wanted \in [Slots -> SUBSET Files]
      /\ exit \in [Slots -> {0, 1, 2, NotExited, Signalled}]
      /\ together \subseteq 1 .. MaxSessions
      /\ port \subseteq Slots
      /\ \A p \in port : at[p] = "waiting" \/ (cmd[p] = "attestation" /\ at[p] # "idle")
      /\ quality \in Seq(Qualities) /\ Len(quality) <= MaxSessions
      /\ \A p \in Slots : left[p] \in Outputs
      /\ \A p \in Slots : at[p] = "writing" => left[p] # << >>
  BY DEF TypeInv, ArtifactsTypeOK
<1>2. /\ MaxSessions \in Nat /\ Nothing \in Content /\ Unanswered \in [Files -> Content]
      /\ \A c \in Content : Torn(c) \in Content
      /\ << >> \in Outputs /\ << >> \in Seq(Files)
      /\ \A p \in Slots : Program[p] \subseteq Commands
  <2>1. MaxSessions \in Nat /\ Nothing \in Content
    BY ArtifactsParameters DEF Nothing, Content
  <2>2. ASSUME NEW c \in Content PROVE Torn(c) \in Content
    BY TornContent
  <2>3. << >> \in Outputs /\ << >> \in Seq(Files)
    BY DEF Outputs
  <2>4. Unanswered \in [Files -> Content]
    BY <2>1 DEF Unanswered
  <2>5. \A p \in Slots : Program[p] \subseteq Commands
    BY ArtifactsParameters
  <2> QED
    BY <2>1, <2>2, <2>3, <2>4, <2>5
<1>3. ASSUME UNCHANGED avars PROVE TypeInv'
  BY <1>3 DEF avars, run, counters, TypeInv, ArtifactsTypeOK
<1>4. ASSUME NEW p \in Slots, Step(p) PROVE TypeInv'
  <2>1. CASE Starts(p)
    BY <1>1, <1>2, <2>1 DEF Starts, GoesTo, TypeInv, ArtifactsTypeOK
  <2>2. CASE Refuses(p) \/ ReceiveFails(p) \/ AttestationMissing(p) \/ Killed(p)
             \/ AttestationVerifies(p) \/ LastFileEnds(p) \/ ProofDecodes(p)
             \/ VerifyReadsAttestation(p)
    <3>1. /\ at' = [at EXCEPT ![p] = "idle"] /\ port' = port \ {p}
          /\ UNCHANGED <<files, cmd, sent, reply, left, wanted, seen, quality, together>>
      BY <2>2 DEF Refuses, ReceiveFails, AttestationMissing, Killed, AttestationVerifies,
         LastFileEnds, ProofDecodes, VerifyReadsAttestation, Ends, GoesTo, run
    <3>2. exit' \in [Slots -> {0, 1, 2, NotExited, Signalled}]
      BY <1>1, <2>2 DEF Refuses, ReceiveFails, AttestationMissing, Killed, AttestationVerifies,
         LastFileEnds, ProofDecodes, VerifyReadsAttestation, Ends
    <3> QED
      BY <1>1, <3>1, <3>2 DEF TypeInv, ArtifactsTypeOK
  <2>3. ASSUME NEW outputs \in Outputs, Sends(p, outputs), sent' \in [Slots -> Content]
        PROVE  TypeInv'
    <3>1. outputs \in Seq(Files)
      BY RestOfOutputs
    <3>2. {outputs[i] : i \in DOMAIN outputs} \subseteq Files
      BY <3>1
    <3>3. /\ at' = [at EXCEPT ![p] = "waiting"] /\ port' = port \cup {p}
          /\ left' = [left EXCEPT ![p] = outputs]
          /\ wanted' = [wanted EXCEPT ![p] = {outputs[i] : i \in DOMAIN outputs}]
          /\ UNCHANGED <<files, cmd, reply, seen, exit, quality, together>>
      BY <2>3 DEF Sends, GoesTo
    <3>4. wanted' \in [Slots -> SUBSET Files]
      BY <1>1, <3>2, <3>3
    <3> QED
      BY <1>1, <2>3, <3>1, <3>3, <3>4 DEF TypeInv, ArtifactsTypeOK
  <2>4. CASE AttestationSends(p) \/ EndorseSends(p) \/ ProofSends(p)
    <3>1. files[RequestFrom(cmd[p])] \in Content
      BY <1>1 DEF Files, RequestFrom
    <3>2. sent' \in [Slots -> Content]
      BY <1>1, <2>4, <3>1 DEF AttestationSends, EndorseSends, ProofSends
    <3>3. \E outputs \in Outputs : Sends(p, outputs)
      BY <2>4 DEF AttestationSends, EndorseSends, ProofSends, Outputs
    <3> QED
      BY <2>3, <3>2, <3>3
  <2>5. ASSUME Answers(p)
        PROVE  /\ reply' \in [Slots -> [Files -> Content]]
               /\ quality' \in Seq(Qualities) /\ Len(quality') <= MaxSessions
               /\ at[p] = "waiting"
    <3>1. at[p] = "waiting" /\ Len(quality) < MaxSessions
      BY <2>5 DEF Answers
    <3>2. PICK q \in Qualities : quality' = Append(quality, q)
      BY <2>5 DEF Answers, Qualities
    <3>3. quality' \in Seq(Qualities) /\ Len(quality') = Len(quality) + 1 /\ Len(quality) \in Nat
      BY <1>1, <3>2, AppendProperties, LenProperties
    <3>4. Whole(Len(quality) + 1) \in Content
      BY <1>2, <3>1, <3>3 DEF Whole, Content
    <3>5. PICK t \in Content, a \in Content :
            reply' = [reply EXCEPT ![p] =
                        [Unanswered EXCEPT !["tree"] = t, !["attestation"] = a]]
      BY <1>2, <2>5, <3>4 DEF Answers
    <3>6. [Unanswered EXCEPT !["tree"] = t, !["attestation"] = a] \in [Files -> Content]
      BY <1>2
    <3>7. reply' \in [Slots -> [Files -> Content]]
      BY <1>1, <3>5, <3>6
    <3> QED
      BY <1>2, <3>1, <3>3, <3>7
  <2>6. CASE AttestationReceives(p) \/ EndorseReceives(p)
    <3>1. Answers(p)
      BY <2>6 DEF AttestationReceives, EndorseReceives
    <3>2. /\ UNCHANGED <<files, cmd, sent, left, wanted, seen, together>>
          /\ cmd[p] \in {"attestation", "endorse"}
          /\ \/ at' = [at EXCEPT ![p] = "idle"] /\ port' = port \ {p}
             \/ at' = [at EXCEPT ![p] = "writes"] /\ port' = port /\ cmd[p] = "attestation"
             \/ at' = [at EXCEPT ![p] = "writes"] /\ port' = port \ {p}
          /\ \/ exit' = exit
             \/ exit' = [exit EXCEPT ![p] = 1]
             \/ exit' = [exit EXCEPT ![p] = 2]
      BY <2>6 DEF AttestationReceives, EndorseReceives, Ends, GoesTo
    <3>3. exit' \in [Slots -> {0, 1, 2, NotExited, Signalled}]
      BY <1>1, <3>2
    <3>4. at' \in [Slots -> {"idle", "begin", "waiting", "writes", "writing", "readTree"}]
          /\ at'[p] # "writing" /\ \A r \in Slots : r # p => at'[r] = at[r]
      BY <1>1, <3>2
    <3>5. port' \subseteq Slots
          /\ \A r \in port' : at'[r] = "waiting" \/ (cmd'[r] = "attestation" /\ at'[r] # "idle")
      BY <1>1, <3>2, <3>4
    <3> QED
      BY <1>1, <2>5, <3>1, <3>2, <3>3, <3>4, <3>5 DEF TypeInv, ArtifactsTypeOK
  <2>7. CASE ProofReceives(p)
    <3>1. PICK answer \in Content :
            reply' = [reply EXCEPT ![p] = [Unanswered EXCEPT !["proof"] = answer]]
      BY <1>1, <1>2, <2>7 DEF ProofReceives
    <3>2. [Unanswered EXCEPT !["proof"] = answer] \in [Files -> Content]
      BY <1>2
    <3>3. reply' \in [Slots -> [Files -> Content]]
      BY <1>1, <3>1, <3>2
    <3>4. /\ at' = [at EXCEPT ![p] = "writes"] /\ port' = port \ {p}
          /\ UNCHANGED <<files, cmd, sent, left, wanted, seen, exit, quality, together>>
      BY <2>7 DEF ProofReceives, GoesTo
    <3> QED
      BY <1>1, <3>3, <3>4 DEF TypeInv, ArtifactsTypeOK
  <2>8. ASSUME NEW c \in Content, Writes(p, c), left[p] # << >>
        PROVE  files' \in [Files -> Content] /\ together' \subseteq 1 .. MaxSessions
    <3>1. Output(p) \in Files
      BY <1>1, <2>8, RestOfOutputs DEF Output
    <3> QED
      BY <1>1, <2>8, <3>1 DEF Writes
  <2>9. CASE OpensFile(p)
    <3>1. /\ at' = [at EXCEPT ![p] = "writing"] /\ Writes(p, Nothing) /\ left[p] # << >>
          /\ at[p] = "writes"
          /\ UNCHANGED <<port, cmd, sent, reply, left, wanted, seen, exit, quality>>
      BY <2>9 DEF OpensFile, ToWrite, GoesTo, run
    <3>2. files' \in [Files -> Content] /\ together' \subseteq 1 .. MaxSessions
      BY <1>2, <2>8, <3>1
    <3> QED
      BY <1>1, <3>1, <3>2 DEF TypeInv, ArtifactsTypeOK
  <2>10. ASSUME left[p] # << >>
         PROVE  /\ Output(p) \in Files
                /\ Tail(left[p]) \in Outputs /\ Tail(left[p]) \in Seq(Files)
                /\ reply[p][Output(p)] \in Content
    BY <1>1, <2>10, RestOfOutputs DEF Output
  <2>11. CASE Spills(p)
    <3>1. /\ Writes(p, Torn(reply[p][Output(p)])) /\ left[p] # << >>
          /\ UNCHANGED <<at, port, cmd, sent, reply, left, wanted, seen, exit, quality>>
      BY <1>1, <2>11 DEF Spills, run
    <3>2. files' \in [Files -> Content] /\ together' \subseteq 1 .. MaxSessions
      BY <1>2, <2>8, <2>10, <3>1
    <3> QED
      BY <1>1, <3>1, <3>2 DEF TypeInv, ArtifactsTypeOK
  <2>12. ASSUME NextFile(p), left[p] # << >>
         PROVE  /\ left' \in [Slots -> Seq(Files)]
                /\ \A r \in Slots : left'[r] \in Outputs
                /\ \A r \in Slots : at'[r] = "writing" => left'[r] # << >>
                /\ at' \in [Slots -> {"idle", "begin", "waiting", "writes", "writing", "readTree"}]
                /\ at'[p] = "writes" /\ (\A r \in Slots : r # p => at'[r] = at[r])
                /\ port' = port /\ exit' = exit
    <3>1. /\ at' = [at EXCEPT ![p] = "writes"] /\ port' = port /\ exit' = exit
          /\ left' = [left EXCEPT ![p] = Tail(left[p])]
      BY <2>12 DEF NextFile, GoesTo
    <3> QED
      BY <1>1, <2>10, <2>12, <3>1
  <2>13. CASE CompletesFile(p)
    <3>1. /\ Writes(p, reply[p][Output(p)]) /\ NextFile(p) /\ left[p] # << >>
          /\ at[p] = "writing"
          /\ UNCHANGED <<cmd, sent, reply, wanted, seen, quality>>
      BY <1>1, <2>13 DEF CompletesFile
    <3>2. files' \in [Files -> Content] /\ together' \subseteq 1 .. MaxSessions
      BY <2>8, <2>10, <3>1
    <3> QED
      BY <1>1, <2>12, <3>1, <3>2 DEF TypeInv, ArtifactsTypeOK
  <2>14. CASE FailsLate(p)
    <3>1. /\ NextFile(p) /\ left[p] # << >> /\ at[p] = "writing"
          /\ UNCHANGED <<files, cmd, sent, reply, wanted, seen, quality, together>>
      BY <1>1, <2>14 DEF FailsLate
    <3> QED
      BY <1>1, <2>12, <3>1 DEF TypeInv, ArtifactsTypeOK
  <2>15. CASE CannotOpenFile(p) \/ WriteBreaks(p)
    <3>1. /\ WriteFails(p) /\ left[p] # << >> /\ at[p] \in {"writes", "writing"}
          /\ UNCHANGED <<files, cmd, sent, reply, seen, quality, together>>
      BY <1>1, <2>15 DEF CannotOpenFile, WriteBreaks, ToWrite
    <3>2. wanted' \in [Slots -> SUBSET Files]
      BY <1>1, <3>1 DEF WriteFails
    <3>3. CASE cmd[p] = "endorse"
      BY <1>1, <2>12, <3>1, <3>2, <3>3 DEF WriteFails, TypeInv, ArtifactsTypeOK
    <3>4. CASE cmd[p] # "endorse"
      <4>1. /\ at' = [at EXCEPT ![p] = "idle"] /\ port' = port \ {p} /\ left' = left
            /\ exit' = [exit EXCEPT ![p] = 2]
        BY <3>1, <3>4 DEF WriteFails, Ends, GoesTo
      <4> QED
        BY <1>1, <3>1, <3>2, <4>1 DEF TypeInv, ArtifactsTypeOK
    <3> QED
      BY <3>3, <3>4
  <2>16. CASE VerifyReadsTree(p)
    <3>1. /\ at[p] = "begin"
          /\ \/ at' = [at EXCEPT ![p] = "idle"] /\ port' = port \ {p} /\ seen' = seen
                /\ exit' = [exit EXCEPT ![p] = 2]
             \/ at' = [at EXCEPT ![p] = "readTree"] /\ port' = port /\ exit' = exit
                /\ seen' = [seen EXCEPT ![p] = files["tree"]]
          /\ UNCHANGED <<files, cmd, sent, reply, left, wanted, quality, together>>
      BY <2>16 DEF VerifyReadsTree, Ends, GoesTo
    <3>2. files["tree"] \in Content
      BY <1>1 DEF Files
    <3> QED
      BY <1>1, <3>1, <3>2 DEF TypeInv, ArtifactsTypeOK
  <2>17. CASE ProofPrepares(p)
    <3>1. /\ at' = [at EXCEPT ![p] = "writes"] /\ at[p] = "begin" /\ cmd[p] = "prepare"
          /\ left' = [left EXCEPT ![p] = <<"payload">>]
          /\ wanted' = [wanted EXCEPT ![p] = {"payload"}]
          /\ reply' = [reply EXCEPT ![p] = [Unanswered EXCEPT !["payload"] = files["tree"]]]
          /\ UNCHANGED <<files, cmd, port, sent, seen, exit, quality, together>>
      BY <2>17 DEF ProofPrepares, GoesTo
    <3>2. /\ <<"payload">> \in Outputs /\ <<"payload">> \in Seq(Files)
          /\ {"payload"} \subseteq Files /\ files["tree"] \in Content
      BY <1>1, RestOfOutputs DEF Outputs, Files
    <3>3. [Unanswered EXCEPT !["payload"] = files["tree"]] \in [Files -> Content]
      BY <1>2, <3>2
    <3>4. reply' \in [Slots -> [Files -> Content]]
      BY <1>1, <3>1, <3>3
    <3> QED
      BY <1>1, <3>1, <3>2, <3>4 DEF TypeInv, ArtifactsTypeOK
  <2> QED
    BY <1>4, <2>1, <2>2, <2>4, <2>6, <2>7, <2>9, <2>11, <2>13, <2>14, <2>15, <2>16, <2>17 DEF Step
<1> QED
  BY <1>3, <1>4 DEF Next

(* Artifacts, ports and runs keep their types, however runs interleave,    *)
(* fail or die.                                                            *)
THEOREM ArtifactsTypeCorrect == Spec => []ArtifactsTypeOK
<1>1. TypeInv => ArtifactsTypeOK
  BY DEF TypeInv
<1> QED
  BY <1>1, InitTypeInv, TypeStep, PTL DEF Spec

-----------------------------------------------------------------------------
(* Runs and sessions. *)

LEMMA InitRoleInv == Init => RoleInv
<1> SUFFICES ASSUME Init PROVE RoleInv
  OBVIOUS
<1>1. Nothing \in Known
  BY ArtifactsParameters DEF Init, Nothing, Known, Content
<1>2. Unanswered \in [Files -> Known]
  BY <1>1 DEF Unanswered
<1> QED
  BY <1>1, <1>2 DEF Init, RoleInv, Active

(* Sessions are only ever added. *)
LEMMA SessionsGrow ==
  ASSUME TypeInv, NEW p \in Slots, Step(p)
  PROVE  /\ Len(quality) \in Nat
         /\ \/ quality' = quality
            \/ /\ Answers(p)
               /\ quality' \in Seq(Qualities) /\ Len(quality') = Len(quality) + 1
               /\ \A s \in 1 .. Len(quality) : quality'[s] = quality[s]
               /\ Whole(Len(quality')) \in Known' /\ Torn(Whole(Len(quality'))) \in Known'
         /\ Known \subseteq Known'
<1>1. quality \in Seq(Qualities) /\ Len(quality) \in Nat
  BY LenProperties DEF TypeInv
<1>2. CASE Answers(p)
  <2>1. PICK q \in Qualities : quality' = Append(quality, q)
    BY <1>2 DEF Answers, Qualities
  <2>2. /\ quality' \in Seq(Qualities) /\ Len(quality') = Len(quality) + 1
        /\ \A s \in 1 .. Len(quality) : quality'[s] = quality[s]
    BY <1>1, <2>1, AppendProperties
  <2>3. Len(quality') \in 1 .. MaxSessions /\ MaxSessions \in Nat
    BY <1>1, <1>2, <2>2, ArtifactsParameters DEF Answers
  <2>4. Whole(Len(quality')) \in Known' /\ Torn(Whole(Len(quality'))) \in Known'
    <3> DEFINE n == Len(quality')
    <3>1. Whole(n) \in Content /\ Whole(n).of = n /\ Whole(n).whole = TRUE
      BY <2>3 DEF Whole, Content
    <3>2. /\ Torn(Whole(n)) \in Content /\ Torn(Whole(n)).of = n
          /\ Torn(Whole(n)).whole = FALSE
      BY <3>1, TornContent
    <3>3. Known' = {c \in Content : c.of <= n /\ (c.whole => c.of >= 1)}
      BY DEF Known, Content
    <3> HIDE DEF n
    <3>4. Whole(n) \in Known'
      BY <2>3, <3>1, <3>2, <3>3 DEF n
    <3>5. Torn(Whole(n)) \in Known'
      BY <2>3, <3>1, <3>2, <3>3 DEF n
    <3> QED
      BY <3>4, <3>5 DEF n
  <2>5. Known \subseteq Known'
    BY <1>1, <2>2, <2>3 DEF Known, Content
  <2> QED
    BY <1>1, <1>2, <2>2, <2>4, <2>5
<1>3. CASE ~Answers(p)
  <2>1. quality' = quality
    BY <1>3 DEF Step, Starts, Refuses, AttestationSends, EndorseSends, ProofSends, Sends,
       ProofPrepares, ReceiveFails, AttestationReceives, EndorseReceives, ProofReceives, AttestationMissing,
       OpensFile, CannotOpenFile, Spills, CompletesFile, WriteBreaks, FailsLate,
       AttestationVerifies, LastFileEnds, ProofDecodes, VerifyReadsTree,
       VerifyReadsAttestation, Killed
  <2> QED
    BY <1>1, <2>1 DEF Known
<1> QED
  BY <1>2, <1>3

LEMMA NothingKnown ==
  ASSUME TypeInv
  PROVE  /\ Nothing \in Known /\ Unanswered \in [Files -> Known]
         /\ \A c \in Known : Torn(c) \in Known
<1>1. Len(quality) \in Nat
  BY LenProperties DEF TypeInv
<1>2. Nothing \in Known
  BY <1>1, ArtifactsParameters DEF Nothing, Known, Content
<1>3. ASSUME NEW c \in Known PROVE Torn(c) \in Known
  <2>1. c \in Content /\ c.of <= Len(quality)
    BY DEF Known
  <2> QED
    BY <2>1, TornContent DEF Known
<1>4. Unanswered \in [Files -> Known]
  BY <1>2 DEF Unanswered
<1> QED
  BY <1>2, <1>3, <1>4

(* What a step writes, reads, sends or receives is from a known session. *)
LEMMA KnownStep ==
  ASSUME TypeInv, RoleInv, NEW p \in Slots, Step(p)
  PROVE  /\ files' \in [Files -> Known']
         /\ seen' \in [Slots -> Known'] /\ sent' \in [Slots -> Known']
         /\ reply' \in [Slots -> [Files -> Known']]
<1> DEFINE K == Known'
<1>1. /\ files \in [Files -> Known] /\ seen \in [Slots -> Known] /\ sent \in [Slots -> Known]
      /\ reply \in [Slots -> [Files -> Known]]
      /\ "tree" \in Files /\ "attestation" \in Files /\ "proof" \in Files
  BY DEF RoleInv, Files
<1>2. Known \subseteq K
  BY SessionsGrow
<1>3. /\ Nothing \in Known /\ Unanswered \in [Files -> Known]
      /\ \A c \in Known : Torn(c) \in Known
  BY NothingKnown
<1>4. at[p] = "writing" => left[p] # << >>
  BY DEF TypeInv
<1>5. left[p] # << >> => Output(p) \in Files
  BY RestOfOutputs DEF Output, TypeInv
<1>6. CASE Starts(p)
  BY <1>1, <1>3, <1>6 DEF Starts, Known
<1>7. CASE AttestationReceives(p) \/ EndorseReceives(p)
  <2>1. Answers(p) /\ UNCHANGED <<files, seen, sent>>
    BY <1>7 DEF AttestationReceives, EndorseReceives
  <2>2. quality' # quality
    <3>1. quality \in Seq(Qualities) /\ Len(quality) \in Nat
      BY LenProperties DEF TypeInv
    <3>2. PICK q \in Qualities : quality' = Append(quality, q)
      BY <2>1 DEF Answers, Qualities
    <3>3. Len(quality') = Len(quality) + 1
      BY <3>1, <3>2, AppendProperties
    <3> QED
      BY <3>1, <3>3
  <2>3. /\ Whole(Len(quality) + 1) \in K /\ Torn(Whole(Len(quality) + 1)) \in K
    BY <2>2, SessionsGrow
  <2>4. PICK t \in K, a \in K :
          reply' = [reply EXCEPT ![p] = [Unanswered EXCEPT !["tree"] = t, !["attestation"] = a]]
    BY <1>2, <1>3, <2>1, <2>3 DEF Answers
  <2> HIDE DEF K
  <2>5. [Unanswered EXCEPT !["tree"] = t, !["attestation"] = a] \in [Files -> K]
    BY <1>2, <1>3
  <2>6. reply' \in [Slots -> [Files -> K]]
    <3>1. \A r \in Slots : reply[r] \in [Files -> K]
      BY <1>1, <1>2
    <3>2. reply \in [Slots -> [Files -> K]]
      BY <1>1, <3>1
    <3> QED
      BY <2>4, <2>5, <3>2
  <2> QED
    BY <1>1, <1>2, <2>1, <2>6 DEF K
<1>8. CASE ~(AttestationReceives(p) \/ EndorseReceives(p))
  <2>1. CASE ProofReceives(p)
    <3>1. sent[p] \in Known /\ UNCHANGED <<files, seen, sent, quality>>
      BY <1>1, <2>1 DEF ProofReceives
    <3>2. PICK answer \in Known :
            reply' = [reply EXCEPT ![p] = [Unanswered EXCEPT !["proof"] = answer]]
      BY <1>3, <2>1, <3>1 DEF ProofReceives
    <3>3. [Unanswered EXCEPT !["proof"] = answer] \in [Files -> Known]
      BY <1>3
    <3>4. reply' \in [Slots -> [Files -> Known]] /\ Known' = Known
      BY <1>1, <3>1, <3>2, <3>3 DEF Known
    <3> QED
      BY <1>1, <3>1, <3>4
  <2>2. CASE ProofSends(p)
    <3>1. /\ sent' = [sent EXCEPT ![p] = files[RequestFrom(cmd[p])]]
          /\ UNCHANGED <<files, seen, reply, quality>> /\ RequestFrom(cmd[p]) \in Files
      BY <2>2 DEF ProofSends, Sends, RequestFrom, Files
    <3> QED
      BY <1>1, <3>1 DEF Known
  <2>3. CASE OpensFile(p)
    BY <1>1, <1>3, <1>5, <2>3 DEF OpensFile, ToWrite, Writes, run, Known
  <2>4. CASE Spills(p)
    <3>1. /\ files' = [files EXCEPT ![Output(p)] = Torn(reply[p][Output(p)])]
          /\ UNCHANGED <<seen, sent, reply, quality>> /\ Output(p) \in Files
      BY <1>4, <1>5, <2>4 DEF Spills, Writes, run
    <3>2. Torn(reply[p][Output(p)]) \in Known
      BY <1>1, <1>3, <3>1
    <3> QED
      BY <1>1, <3>1, <3>2 DEF Known
  <2>5. CASE CompletesFile(p)
    <3>1. /\ files' = [files EXCEPT ![Output(p)] = reply[p][Output(p)]]
          /\ UNCHANGED <<seen, sent, reply, quality>> /\ Output(p) \in Files
      BY <1>4, <1>5, <2>5 DEF CompletesFile, Writes
    <3> QED
      BY <1>1, <3>1 DEF Known
  <2>6. CASE VerifyReadsTree(p)
    BY <1>1, <2>6 DEF VerifyReadsTree, Known
  <2>7. CASE Refuses(p) \/ AttestationSends(p) \/ EndorseSends(p) \/ ReceiveFails(p)
             \/ AttestationMissing(p) \/ CannotOpenFile(p) \/ WriteBreaks(p) \/ FailsLate(p)
             \/ AttestationVerifies(p) \/ LastFileEnds(p) \/ ProofDecodes(p)
             \/ VerifyReadsAttestation(p) \/ Killed(p)
    <3>1. UNCHANGED <<files, seen, sent, reply, quality>>
      BY <2>7 DEF Refuses, AttestationSends, EndorseSends, Sends, ReceiveFails,
         AttestationMissing, CannotOpenFile, WriteBreaks, FailsLate, AttestationVerifies,
         LastFileEnds, ProofDecodes, VerifyReadsAttestation, Killed, run
    <3> QED
      BY <1>1, <3>1 DEF Known
  <2>8. CASE ProofPrepares(p)
    <3>1. /\ UNCHANGED <<files, seen, sent, quality>>
          /\ reply' = [reply EXCEPT ![p] = [Unanswered EXCEPT !["payload"] = files["tree"]]]
      BY <2>8 DEF ProofPrepares
    <3>2. [Unanswered EXCEPT !["payload"] = files["tree"]] \in [Files -> Known]
      BY <1>1, <1>3
    <3>3. reply' \in [Slots -> [Files -> Known]] /\ Known' = Known
      BY <1>1, <3>1, <3>2 DEF Known
    <3> QED
      BY <1>1, <3>1, <3>3
  <2> QED
    BY <1>6, <1>8, <2>1, <2>2, <2>3, <2>4, <2>5, <2>6, <2>7, <2>8 DEF Step
<1> QED
  BY <1>7, <1>8

LEMMA RoleStep == TypeInv /\ RoleInv /\ [Next]_avars => RoleInv'
<1> SUFFICES ASSUME TypeInv, RoleInv, [Next]_avars PROVE RoleInv'
  OBVIOUS
<1>1. /\ at \in [Slots -> {"idle", "begin", "waiting", "writes", "writing", "readTree"}]
      /\ cmd \in [Slots -> Commands \cup {"none"}]
      /\ left \in [Slots -> Seq(Files)]
      /\ \A p \in Slots : left[p] \in Outputs
      /\ \A p \in Slots : at[p] = "writing" => left[p] # << >>
  BY DEF TypeInv, ArtifactsTypeOK
<1>2. \A p \in Slots :
        /\ cmd[p] \in Program[p] \cup {"none"}
        /\ at[p] # "idle" => cmd[p] # "none"
        /\ at[p] = "readTree" => cmd[p] = "verify"
        /\ Active(p) => cmd[p] # "verify" /\ left[p] \in OutputsFor(cmd[p])
  BY DEF RoleInv
<1>3. CASE UNCHANGED avars
  BY <1>3 DEF avars, run, RoleInv, Known, Active
<1>4. ASSUME NEW p \in Slots, Step(p) PROVE RoleInv'
  <2>1. SUFFICES \A r \in Slots :
          /\ cmd'[r] \in Program[r] \cup {"none"}
          /\ at'[r] # "idle" => cmd'[r] # "none"
          /\ at'[r] = "readTree" => cmd'[r] = "verify"
          /\ Active(r)' => cmd'[r] # "verify" /\ left'[r] \in OutputsFor(cmd'[r])
    BY <1>4, KnownStep DEF RoleInv, Active
  <2>2. CASE Starts(p)
    <3>1. PICK c \in Program[p] : cmd' = [cmd EXCEPT ![p] = c] /\ at' = [at EXCEPT ![p] = "begin"]
                                 /\ left' = [left EXCEPT ![p] = << >>]
      BY <2>2 DEF Starts, GoesTo
    <3>2. c # "none"
      BY ArtifactsParameters DEF Commands, Proves
    <3> QED
      BY <1>1, <1>2, <3>1, <3>2 DEF Active
  <2>3. CASE Refuses(p) \/ ReceiveFails(p) \/ AttestationMissing(p) \/ Killed(p)
             \/ AttestationVerifies(p) \/ LastFileEnds(p) \/ ProofDecodes(p)
             \/ VerifyReadsAttestation(p)
    <3>1. at' = [at EXCEPT ![p] = "idle"] /\ cmd' = cmd /\ left' = left
      BY <2>3 DEF Refuses, ReceiveFails, AttestationMissing, Killed, AttestationVerifies,
         LastFileEnds, ProofDecodes, VerifyReadsAttestation, Ends, GoesTo, run
    <3> QED
      BY <1>1, <1>2, <3>1 DEF Active
  <2>4. CASE AttestationSends(p) \/ EndorseSends(p) \/ ProofSends(p)
    <3>1. PICK l \in OutputsFor(cmd[p]) :
            /\ at' = [at EXCEPT ![p] = "waiting"] /\ cmd' = cmd /\ cmd[p] # "verify"
            /\ cmd[p] # "none" /\ left' = [left EXCEPT ![p] = l]
      BY <2>4 DEF AttestationSends, EndorseSends, ProofSends, Sends, GoesTo, OutputsFor,
         Proves
    <3> QED
      BY <1>1, <1>2, <3>1 DEF Active
  <2>5. CASE AttestationReceives(p) \/ EndorseReceives(p) \/ ProofReceives(p)
    <3>1. /\ \/ at' = [at EXCEPT ![p] = "idle"]
             \/ at' = [at EXCEPT ![p] = "writes"]
          /\ at[p] = "waiting" /\ cmd' = cmd /\ left' = left
      BY <2>5 DEF AttestationReceives, EndorseReceives, ProofReceives, Answers, Ends, GoesTo
    <3> QED
      BY <1>1, <1>2, <3>1 DEF Active
  <2>6. CASE OpensFile(p) \/ Spills(p)
    <3>1. /\ at' = [at EXCEPT ![p] = "writing"] /\ cmd' = cmd /\ left' = left
          /\ at[p] \in {"writes", "writing"}
      BY <1>1, <2>6 DEF OpensFile, ToWrite, Spills, GoesTo, run
    <3> QED
      BY <1>1, <1>2, <3>1 DEF Active
  <2>7. ASSUME NextFile(p), cmd' = cmd, at[p] \in {"writes", "writing"}, left[p] # << >>
        PROVE  \A r \in Slots :
                 /\ at'[r] = "readTree" => at[r] = "readTree"
                 /\ at'[r] # "idle" => at[r] # "idle"
                 /\ Active(r)' => cmd'[r] # "verify" /\ left'[r] \in OutputsFor(cmd'[r])
    <3>1. at' = [at EXCEPT ![p] = "writes"] /\ left' = [left EXCEPT ![p] = Tail(left[p])]
      BY <2>7 DEF NextFile, GoesTo
    <3>2. cmd[p] # "verify" /\ left[p] \in OutputsFor(cmd[p]) /\ left[p] \in Outputs
      BY <1>1, <1>2, <2>7 DEF Active
    <3>3. Tail(left[p]) \in OutputsFor(cmd[p])
      <4>1. CASE cmd[p] \in Proves
        BY <2>7, <3>2, <4>1, RestOfOutputs DEF OutputsFor
      <4>2. CASE cmd[p] = "prepare"
        BY <2>7, <3>2, <4>2, RestOfOutputs DEF OutputsFor, Proves
      <4>3. CASE cmd[p] \notin Proves \cup {"prepare"}
        <5>1. \/ left[p] = <<"tree">> \/ left[p] = <<"attestation">>
              \/ left[p] = <<"tree", "attestation">>
          BY <2>7, <3>2, <4>3 DEF OutputsFor
        <5>2. Tail(left[p]) \in {<< >>, <<"attestation">>}
          BY <3>2, <5>1, RestOfOutputs
        <5> QED
          BY <4>3, <5>2 DEF OutputsFor
      <4> QED
        BY <4>1, <4>2, <4>3
    <3> QED
      BY <1>1, <1>2, <2>7, <3>1, <3>2, <3>3 DEF Active
  <2>8. CASE CompletesFile(p) \/ FailsLate(p)
    <3>1. NextFile(p) /\ cmd' = cmd /\ at[p] \in {"writes", "writing"} /\ left[p] # << >>
      BY <1>1, <2>8 DEF CompletesFile, FailsLate
    <3> QED
      BY <1>2, <2>7, <3>1
  <2>9. CASE CannotOpenFile(p) \/ WriteBreaks(p)
    <3>1. /\ WriteFails(p) /\ left[p] # << >> /\ at[p] \in {"writes", "writing"} /\ cmd' = cmd
      BY <1>1, <2>9 DEF CannotOpenFile, WriteBreaks, ToWrite
    <3>2. CASE cmd[p] = "endorse"
      BY <1>2, <2>7, <3>1, <3>2 DEF WriteFails
    <3>3. CASE cmd[p] # "endorse"
      <4>1. at' = [at EXCEPT ![p] = "idle"] /\ left' = left
        BY <3>1, <3>3 DEF WriteFails, Ends, GoesTo
      <4> QED
        BY <1>1, <1>2, <3>1, <4>1 DEF Active
    <3> QED
      BY <3>2, <3>3
  <2>10. CASE VerifyReadsTree(p)
    <3>1. /\ \/ at' = [at EXCEPT ![p] = "idle"]
             \/ at' = [at EXCEPT ![p] = "readTree"]
          /\ cmd[p] = "verify" /\ cmd' = cmd /\ left' = left
      BY <2>10 DEF VerifyReadsTree, Ends, GoesTo
    <3> QED
      BY <1>1, <1>2, <3>1 DEF Active
  <2>11. CASE ProofPrepares(p)
    <3>1. /\ at' = [at EXCEPT ![p] = "writes"] /\ cmd' = cmd /\ cmd[p] = "prepare"
          /\ left' = [left EXCEPT ![p] = <<"payload">>]
      BY <2>11 DEF ProofPrepares, GoesTo
    <3>2. <<"payload">> \in OutputsFor("prepare")
      BY DEF OutputsFor, Proves
    <3> QED
      BY <1>1, <1>2, <3>1, <3>2 DEF Active
  <2> QED
    BY <1>4, <2>2, <2>3, <2>4, <2>5, <2>6, <2>8, <2>9, <2>10, <2>11 DEF Step
<1> QED
  BY <1>3, <1>4 DEF Next

-----------------------------------------------------------------------------
(* One slot writes; the others only verify. *)

OnlyWriter(w) == w \in Slots /\ \A p \in Slots \ {w} : Program[p] \subseteq {"verify"}

Done(p) == at[p] = "idle" /\ exit[p] = 0

WritesNow(p) == at[p] \in {"writes", "writing"}

(* While the writer runs, and after it succeeded, what it has written is   *)
(* its answer, and what it sent for a proof, or prepared, is still what    *)
(* the file it took it from holds.                                         *)
KeptInv(w) ==
  /\ late \in Nat
  /\ at[w] = "waiting" => wanted[w] \subseteq ToCome(w)
  /\ late = 0 /\ cmd[w] # "verify" /\ (WritesNow(w) \/ Done(w)) =>
       \A f \in wanted[w] \ ToCome(w) : files[f] = reply[w][f]
  /\ cmd[w] # "verify" /\ Done(w) => left[w] = << >>
  /\ cmd[w] = "attestation" /\ (Active(w) \/ Done(w)) => wanted[w] = {"tree", "attestation"}
  /\ cmd[w] = "attestation" /\ Done(w) =>
       Verifies(reply[w]["tree"], reply[w]["attestation"], TRUE)
  /\ cmd[w] \in Proves /\ (Active(w) \/ Done(w)) =>
       wanted[w] = {"proof"} /\ sent[w] = files[RequestFrom(cmd[w])]
  /\ cmd[w] \in Proves /\ (WritesNow(w) \/ Done(w)) => reply[w]["proof"].of = sent[w].of
  /\ cmd[w] \in Proves /\ Done(w) => reply[w]["proof"].whole
  /\ cmd[w] = "prepare" /\ (WritesNow(w) \/ Done(w)) =>
       wanted[w] = {"payload"} /\ reply[w]["payload"] = files["tree"]

(* A step of another slot reads, starts or ends a run, and no more. *)
LEMMA OthersRead ==
  ASSUME TypeInv, RoleInv, NEW w, OnlyWriter(w), NEW p \in Slots, p # w, Step(p)
  PROVE  /\ UNCHANGED <<files, quality, together, late>>
         /\ at'[w] = at[w] /\ cmd'[w] = cmd[w] /\ exit'[w] = exit[w] /\ left'[w] = left[w]
         /\ wanted'[w] = wanted[w] /\ reply'[w] = reply[w] /\ sent'[w] = sent[w]
         /\ seen'[w] = seen[w]
         /\ \/ Starts(p) \/ VerifyReadsTree(p) \/ VerifyReadsAttestation(p) \/ Killed(p)
<1>1. /\ at \in [Slots -> {"idle", "begin", "waiting", "writes", "writing", "readTree"}]
      /\ cmd \in [Slots -> Commands \cup {"none"}]
      /\ sent \in [Slots -> Content] /\ seen \in [Slots -> Content]
      /\ reply \in [Slots -> [Files -> Content]]
      /\ left \in [Slots -> Seq(Files)] /\ wanted \in [Slots -> SUBSET Files]
      /\ exit \in [Slots -> {0, 1, 2, NotExited, Signalled}]
  BY DEF TypeInv, ArtifactsTypeOK
<1>2. w \in Slots /\ ~Active(p) /\ cmd[p] \in {"verify", "none"}
      /\ (at[p] # "idle" => cmd[p] = "verify")
  BY DEF RoleInv, OnlyWriter, Active
<1>3. \/ Starts(p) \/ VerifyReadsTree(p) \/ VerifyReadsAttestation(p) \/ Killed(p)
  <2>1. ~Refuses(p)
    BY <1>2 DEF Refuses
  <2>2. ~AttestationSends(p) /\ ~EndorseSends(p) /\ ~ProofSends(p) /\ ~ProofPrepares(p)
    BY <1>2 DEF AttestationSends, EndorseSends, ProofSends, ProofPrepares, Proves
  <2>3. ~ReceiveFails(p) /\ ~AttestationReceives(p) /\ ~EndorseReceives(p) /\ ~ProofReceives(p)
    BY <1>2 DEF ReceiveFails, AttestationReceives, EndorseReceives, Answers, ProofReceives, Active
  <2>4. ~AttestationMissing(p) /\ ~OpensFile(p) /\ ~CannotOpenFile(p) /\ ~Spills(p)
        /\ ~CompletesFile(p) /\ ~WriteBreaks(p) /\ ~FailsLate(p)
    BY <1>2 DEF AttestationMissing, OpensFile, CannotOpenFile, ToWrite, Spills, CompletesFile,
       WriteBreaks, FailsLate, Active
  <2>5. ~AttestationVerifies(p) /\ ~LastFileEnds(p) /\ ~ProofDecodes(p)
    BY <1>2 DEF WroteAll, AttestationVerifies, LastFileEnds, ProofDecodes, Active
  <2> QED
    BY <2>1, <2>2, <2>3, <2>4, <2>5 DEF Step
<1>4. CASE Starts(p)
  BY <1>1, <1>2, <1>3, <1>4 DEF Starts, GoesTo
<1>5. CASE VerifyReadsTree(p) \/ VerifyReadsAttestation(p) \/ Killed(p)
  BY <1>1, <1>2, <1>3, <1>5 DEF VerifyReadsTree, VerifyReadsAttestation, Killed, Ends, GoesTo, run,
     counters
<1> QED
  BY <1>3, <1>4, <1>5

LEMMA InitKeptInv ==
  ASSUME NEW w, OnlyWriter(w), Init
  PROVE  KeptInv(w)
BY DEF Init, KeptInv, OnlyWriter, WritesNow, Done, Active, NotExited

(* A step of the writer. *)
LEMMA WriterKeeps ==
  ASSUME TypeInv, RoleInv, NEW w, OnlyWriter(w), KeptInv(w), Step(w)
  PROVE  KeptInv(w)'
<1>1. /\ files \in [Files -> Content]
      /\ at \in [Slots -> {"idle", "begin", "waiting", "writes", "writing", "readTree"}]
      /\ cmd \in [Slots -> Commands \cup {"none"}]
      /\ sent \in [Slots -> Content] /\ seen \in [Slots -> Content]
      /\ reply \in [Slots -> [Files -> Content]]
      /\ left \in [Slots -> Seq(Files)] /\ wanted \in [Slots -> SUBSET Files]
      /\ exit \in [Slots -> {0, 1, 2, NotExited, Signalled}]
      /\ left[w] \in Outputs /\ (at[w] = "writing" => left[w] # << >>)
      /\ w \in Slots
  BY DEF TypeInv, ArtifactsTypeOK, OnlyWriter
<1>2. /\ late \in Nat
      /\ at[w] = "waiting" => wanted[w] \subseteq ToCome(w)
      /\ late = 0 /\ cmd[w] # "verify" /\ (WritesNow(w) \/ Done(w)) =>
           \A f \in wanted[w] \ ToCome(w) : files[f] = reply[w][f]
      /\ cmd[w] # "verify" /\ Done(w) => left[w] = << >>
      /\ cmd[w] = "attestation" /\ (Active(w) \/ Done(w)) => wanted[w] = {"tree", "attestation"}
      /\ cmd[w] \in Proves /\ (Active(w) \/ Done(w)) =>
           wanted[w] = {"proof"} /\ sent[w] = files[RequestFrom(cmd[w])]
      /\ cmd[w] \in Proves /\ (WritesNow(w) \/ Done(w)) => reply[w]["proof"].of = sent[w].of
      /\ cmd[w] = "prepare" /\ (WritesNow(w) \/ Done(w)) =>
           wanted[w] = {"payload"} /\ reply[w]["payload"] = files["tree"]
      /\ "verify" \notin Proves /\ "attestation" \notin Proves /\ "endorse" \notin Proves
      /\ "prepare" \notin Proves
      /\ RequestFrom(cmd[w]) \in {"tree", "payload"}
  BY DEF KeptInv, Proves, RequestFrom
<1>3. /\ Active(w) => cmd[w] # "verify" /\ left[w] \in OutputsFor(cmd[w])
      /\ at[w] # "idle" => cmd[w] # "none"
  BY DEF RoleInv, OnlyWriter
<1>4. CASE Starts(w)
  <2>1. at'[w] = "begin" /\ late' = late
    BY <1>1, <1>4 DEF Starts, GoesTo
  <2> QED
    BY <1>2, <2>1 DEF KeptInv, Active, WritesNow, Done
<1>5. CASE Refuses(w) \/ ReceiveFails(w) \/ AttestationMissing(w) \/ Killed(w)
  <2>1. at'[w] = "idle" /\ exit'[w] # 0 /\ late' = late
    BY <1>1, <1>5 DEF Refuses, ReceiveFails, AttestationMissing, Killed, Ends, GoesTo,
       Signalled, counters
  <2> QED
    BY <1>2, <2>1 DEF KeptInv, Active, WritesNow, Done
<1>6. CASE VerifyReadsAttestation(w) \/ VerifyReadsTree(w)
  <2>1. cmd[w] = "verify"
    BY <1>1, <1>6 DEF VerifyReadsAttestation, VerifyReadsTree, RoleInv
  <2>2. /\ at'[w] \in {"idle", "readTree"} /\ cmd' = cmd /\ late' = late
    BY <1>1, <1>6 DEF VerifyReadsAttestation, VerifyReadsTree, Ends, GoesTo, counters, run
  <2> QED
    BY <1>2, <2>1, <2>2 DEF KeptInv, Active, WritesNow, Done
<1>7. CASE AttestationVerifies(w) \/ LastFileEnds(w) \/ ProofDecodes(w)
  <2>1. /\ at'[w] = "idle" /\ late' = late /\ left[w] = << >> /\ at[w] = "writes"
        /\ UNCHANGED <<files, cmd, sent, reply, left, wanted, quality>>
    BY <1>1, <1>7 DEF AttestationVerifies, LastFileEnds, ProofDecodes, WroteAll, Ends, GoesTo,
       run, counters
  <2>2. WritesNow(w) /\ Active(w)
    BY <2>1 DEF WritesNow, Active
  <2>3. cmd[w] = "attestation" /\ exit'[w] = 0 =>
          Verifies(reply[w]["tree"], reply[w]["attestation"], TRUE)
    <3> DEFINE V == Verifies(reply[w]["tree"], reply[w]["attestation"], TRUE)
    <3>1. cmd[w] = "attestation" => exit' = [exit EXCEPT ![w] = IF V THEN 0 ELSE 1]
      BY <1>7 DEF AttestationVerifies, LastFileEnds, ProofDecodes, Ends, Proves
    <3> HIDE DEF V
    <3>2. cmd[w] = "attestation" /\ exit'[w] = 0 => V
      BY <1>1, <3>1
    <3> QED
      BY <3>2 DEF V
  <2>4. cmd[w] \in Proves /\ exit'[w] = 0 => reply[w]["proof"].whole
    <3>1. cmd[w] \in Proves =>
            exit' = [exit EXCEPT ![w] = IF reply[w]["proof"].whole THEN 0 ELSE 1]
      BY <1>7 DEF AttestationVerifies, LastFileEnds, ProofDecodes, Ends, Proves
    <3> QED
      BY <1>1, <3>1
  <2> QED
    BY <1>2, <2>1, <2>3, <2>4, <2>2 DEF KeptInv, Active, WritesNow, Done, ToCome, Verifies
<1>8. CASE AttestationSends(w) \/ EndorseSends(w) \/ ProofSends(w)
  <2>1. PICK l \in Outputs :
          /\ Sends(w, l)
          /\ cmd[w] = "attestation" => l = <<"tree", "attestation">>
          /\ cmd[w] \in Proves => /\ l = <<"proof">>
                                  /\ sent' = [sent EXCEPT ![w] = files[RequestFrom(cmd[w])]]
          /\ cmd[w] # "prepare"
    BY <1>8 DEF AttestationSends, EndorseSends, ProofSends, Outputs, Proves
  <2>2. wanted' = [wanted EXCEPT ![w] = FilesIn(l)] /\ left' = [left EXCEPT ![w] = l]
    BY <2>1 DEF Sends, FilesIn
  <2>3. wanted'[w] = FilesIn(left'[w]) /\ left'[w] = l
    BY <1>1, <2>2
  <2>4. /\ at'[w] = "waiting" /\ late' = late /\ cmd' = cmd /\ files' = files
        /\ wanted'[w] = FilesIn(left'[w])
        /\ cmd[w] = "attestation" => left'[w] = <<"tree", "attestation">>
        /\ cmd[w] \in Proves => left'[w] = <<"proof">> /\ sent'[w] = files[RequestFrom(cmd[w])]
    BY <1>1, <2>1, <2>3 DEF Sends, GoesTo, counters
  <2>5. /\ FilesIn(<<"tree", "attestation">>) = {"tree", "attestation"}
        /\ FilesIn(<<"proof">>) = {"proof"}
    BY DEF FilesIn
  <2> QED
    BY <1>2, <2>4, <2>5 DEF KeptInv, Active, WritesNow, Done, ToCome
<1>9. CASE AttestationReceives(w) \/ EndorseReceives(w)
  <2>1. /\ at[w] = "waiting" /\ late' = late /\ cmd' = cmd /\ wanted' = wanted /\ left' = left
        /\ cmd[w] \in {"attestation", "endorse"}
        /\ \/ at'[w] = "writes"
           \/ at'[w] = "idle" /\ exit'[w] # 0
    BY <1>1, <1>9 DEF AttestationReceives, EndorseReceives, Answers, Ends, GoesTo, counters
  <2> QED
    BY <1>2, <2>1 DEF KeptInv, Active, WritesNow, Done, ToCome
<1>10. CASE ProofReceives(w)
  <2>1. /\ at[w] = "waiting" /\ at'[w] = "writes" /\ late' = late /\ cmd[w] \in Proves
        /\ UNCHANGED <<files, cmd, wanted, left, sent>>
    BY <1>1, <1>10 DEF ProofReceives, GoesTo, counters
  <2>2. PICK answer \in {sent[w], Torn(sent[w])} :
          reply' = [reply EXCEPT ![w] = [Unanswered EXCEPT !["proof"] = answer]]
    BY <1>10 DEF ProofReceives
  <2>3. answer.of = sent[w].of
    BY <1>1, TornContent
  <2>4. reply'[w]["proof"] = answer
    BY <1>1, <2>2 DEF Unanswered, Files
  <2> QED
    BY <1>2, <2>1, <2>3, <2>4 DEF KeptInv, Active, WritesNow, Done, ToCome
<1>11. ASSUME left[w] # << >>, WritesNow(w)
       PROVE  /\ Output(w) \in ToCome(w) /\ Output(w) \in Files
              /\ FilesIn(Tail(left[w])) = ToCome(w) \ {Output(w)}
              /\ cmd[w] \in Proves => Output(w) = "proof"
              /\ cmd[w] = "prepare" => Output(w) = "payload"
              /\ Active(w) /\ cmd[w] # "verify"
  BY <1>1, <1>3, <1>11, FilesInOutputs, RestOfOutputs
     DEF ToCome, Output, OutputsFor, WritesNow, Active, Proves
<1>12. CASE OpensFile(w) \/ Spills(w)
  <2>1. /\ left[w] # << >> /\ WritesNow(w) /\ at'[w] = "writing" /\ late' = late
        /\ UNCHANGED <<cmd, sent, reply, left, wanted>>
        /\ \A f \in Files \ {Output(w)} : files'[f] = files[f]
    BY <1>1, <1>12 DEF OpensFile, Spills, ToWrite, GoesTo, Writes, run, counters, WritesNow
  <2>2. {"tree", "payload"} \subseteq Files /\ wanted[w] \subseteq Files
    BY <1>1 DEF Files
  <2> QED
    BY <1>2, <1>11, <2>1, <2>2 DEF KeptInv, Active, WritesNow, Done, ToCome
<1>13. CASE CompletesFile(w)
  <2>1. /\ left[w] # << >> /\ WritesNow(w) /\ at'[w] = "writes" /\ late' = late
        /\ UNCHANGED <<cmd, sent, reply, wanted>>
        /\ left'[w] = Tail(left[w])
        /\ files' = [files EXCEPT ![Output(w)] = reply[w][Output(w)]]
    BY <1>1, <1>13 DEF CompletesFile, NextFile, GoesTo, Writes, counters, WritesNow
  <2>2. {"tree", "payload"} \subseteq Files /\ wanted[w] \subseteq Files
    BY <1>1 DEF Files
  <2>3. /\ files'[Output(w)] = reply[w][Output(w)]
        /\ \A f \in Files \ {Output(w)} : files'[f] = files[f]
    BY <1>1, <1>11, <2>1
  <2> QED
    BY <1>2, <1>11, <2>1, <2>2, <2>3 DEF KeptInv, Active, WritesNow, Done, ToCome
<1>14. CASE FailsLate(w)
  <2>1. /\ left[w] # << >> /\ WritesNow(w) /\ at'[w] = "writes" /\ late' = late + 1
        /\ UNCHANGED <<files, cmd, sent, reply, wanted>>
    BY <1>1, <1>14 DEF FailsLate, NextFile, GoesTo, WritesNow
  <2> QED
    BY <1>2, <1>11, <2>1 DEF KeptInv, Active, WritesNow, Done
<1>15. CASE CannotOpenFile(w) \/ WriteBreaks(w)
  <2>1. /\ left[w] # << >> /\ WritesNow(w) /\ late' = late /\ WriteFails(w)
        /\ UNCHANGED <<files, cmd, sent, reply>>
    BY <1>1, <1>15 DEF CannotOpenFile, WriteBreaks, ToWrite, WritesNow, counters, WriteFails, NextFile
  <2>2. CASE cmd[w] = "endorse"
    <3>1. /\ at'[w] = "writes" /\ left'[w] = Tail(left[w])
          /\ wanted'[w] = wanted[w] \ {Output(w)}
      BY <1>1, <2>1, <2>2 DEF WriteFails, NextFile, GoesTo
    <3> QED
      BY <1>2, <1>11, <2>1, <2>2, <3>1 DEF KeptInv, Active, WritesNow, Done, ToCome
  <2>3. CASE cmd[w] # "endorse"
    <3>1. at'[w] = "idle" /\ exit'[w] = 2
      BY <1>1, <2>1, <2>3 DEF WriteFails, Ends, GoesTo
    <3> QED
      BY <1>2, <2>1, <3>1 DEF KeptInv, Active, WritesNow, Done
  <2> QED
    BY <2>2, <2>3
<1>16. CASE ProofPrepares(w)
  <2>1. /\ at'[w] = "writes" /\ late' = late /\ cmd[w] = "prepare" /\ cmd' = cmd
        /\ files' = files /\ wanted'[w] = {"payload"} /\ left'[w] = <<"payload">>
        /\ reply' = [reply EXCEPT ![w] = [Unanswered EXCEPT !["payload"] = files["tree"]]]
    BY <1>1, <1>16 DEF ProofPrepares, GoesTo, counters
  <2>2. reply'[w]["payload"] = files["tree"] /\ FilesIn(<<"payload">>) = {"payload"}
    BY <1>1, <2>1 DEF Unanswered, Files, FilesIn
  <2> QED
    BY <1>2, <2>1, <2>2 DEF KeptInv, Active, WritesNow, Done, ToCome
<1> QED
  BY <1>4, <1>5, <1>6, <1>7, <1>8, <1>9, <1>10, <1>12, <1>13, <1>14, <1>15, <1>16 DEF Step

(* Of the writer and any reader. *)
LEMMA KeptStep ==
  ASSUME TypeInv, RoleInv, NEW w, OnlyWriter(w), KeptInv(w), [Next]_avars
  PROVE  KeptInv(w)'
<1>1. CASE UNCHANGED avars
  BY <1>1 DEF avars, run, counters, KeptInv, WritesNow, Done, Active, ToCome, Verifies
<1>2. ASSUME NEW p \in Slots, Step(p), p # w PROVE KeptInv(w)'
  BY <1>2, OthersRead DEF KeptInv, WritesNow, Done, Active, ToCome, Verifies
<1> QED
  BY <1>1, <1>2, WriterKeeps DEF Next

-----------------------------------------------------------------------------
(* Readers beside a writer.  A session's tree file is whole before its     *)
(* attestation file is: so once a reader has that tree, the tree file      *)
(* still holds it when the attestation file becomes whole.                 *)

HasRead(p, c) == at[p] = "readTree" /\ seen[p].whole /\ seen[p] = c

IsNew(c) == c.whole /\ c.of = Len(quality)

PairInv(w) ==
  /\ files["tree"].whole /\ files["attestation"] = files["tree"] => files["tree"].of \in together
  /\ \A p \in Slots : HasRead(p, files["attestation"]) => seen[p].of \in together
  /\ WritesNow(w) /\ "attestation" \in ToCome(w) =>
       \A p \in Slots : HasRead(p, reply[w]["attestation"]) => files["tree"] = seen[p]
  /\ WritesNow(w) /\ "tree" \in ToCome(w) =>
       ~IsNew(files["tree"]) /\ \A p \in Slots : at[p] = "readTree" => ~IsNew(seen[p])
  /\ WritesNow(w) /\ cmd[w] \in {"attestation", "endorse"} =>
       \A f \in {"tree", "attestation"} : reply[w][f].whole => IsNew(reply[w][f])
  /\ \A p \in Slots : Done(p) /\ cmd[p] = "verify" =>
       seen[p].whole /\ seen[p].of \in together /\ quality[seen[p].of] # "bad"

LEMMA WholeContent ==
  ASSUME NEW c \in Content, c.whole
  PROVE  c = Whole(c.of)
BY DEF Content, Whole

LEMMA InitPairInv ==
  ASSUME NEW w, OnlyWriter(w), Init
  PROVE  PairInv(w)
<1>1. ~Nothing.whole /\ Unanswered["tree"] = Nothing /\ Unanswered["attestation"] = Nothing
  BY DEF Nothing, Unanswered, Files
<1> QED
  BY <1>1 DEF Init, PairInv, OnlyWriter, HasRead, WritesNow, Done, NotExited

(* What is verified is what was read, and that was on disk as a pair. *)
LEMMA ReadersKeepPairs ==
  ASSUME TypeInv, RoleInv, NEW w, OnlyWriter(w), PairInv(w), NEW p \in Slots,
         Starts(p) \/ VerifyReadsTree(p) \/ VerifyReadsAttestation(p) \/ Killed(p)
  PROVE  PairInv(w)'
<1>1. /\ files \in [Files -> Content] /\ seen \in [Slots -> Content]
      /\ at \in [Slots -> {"idle", "begin", "waiting", "writes", "writing", "readTree"}]
      /\ cmd \in [Slots -> Commands \cup {"none"}]
      /\ exit \in [Slots -> {0, 1, 2, NotExited, Signalled}]
      /\ "tree" \in Files /\ "attestation" \in Files /\ w \in Slots
  BY DEF TypeInv, ArtifactsTypeOK, Files, OnlyWriter
<1>2. /\ UNCHANGED <<files, quality, together>>
      /\ WritesNow(w)' => WritesNow(w) /\ cmd'[w] = cmd[w] /\ left'[w] = left[w]
                         /\ reply'[w] = reply[w]
  <2>1. UNCHANGED <<files, quality, together>>
    BY DEF Starts, VerifyReadsTree, VerifyReadsAttestation, Killed
  <2>2. CASE p = w
    <3>1. at'[w] \in {"begin", "idle", "readTree"}
      BY <1>1, <2>2 DEF Starts, VerifyReadsTree, VerifyReadsAttestation, Killed, Ends, GoesTo
    <3> QED
      BY <2>1, <3>1 DEF WritesNow
  <2>3. CASE p # w
    BY <2>1, <2>3, OthersRead DEF Step, WritesNow
  <2> QED
    BY <2>2, <2>3
<1>3. SUFFICES
        \A r \in Slots :
          /\ at'[r] = "readTree" =>
               \/ at[r] = "readTree" /\ seen'[r] = seen[r]
               \/ seen'[r] = files["tree"]
          /\ Done(r)' /\ cmd'[r] = "verify" =>
               seen'[r].whole /\ seen'[r].of \in together /\ quality[seen'[r].of] # "bad"
  BY <1>1, <1>2 DEF PairInv, HasRead, WritesNow, ToCome, IsNew
<1>4. /\ \A r \in Slots : Done(r) /\ cmd[r] = "verify" =>
             seen[r].whole /\ seen[r].of \in together /\ quality[seen[r].of] # "bad"
      /\ \A r \in Slots : HasRead(r, files["attestation"]) => seen[r].of \in together
  BY DEF PairInv
<1>5. CASE Starts(p)
  BY <1>1, <1>4, <1>5 DEF Starts, GoesTo, Done
<1>6. CASE Killed(p)
  BY <1>1, <1>4, <1>6 DEF Killed, Ends, GoesTo, Done, run, Signalled
<1>7. CASE VerifyReadsTree(p)
  BY <1>1, <1>4, <1>7 DEF VerifyReadsTree, Ends, GoesTo, Done
<1>8. CASE VerifyReadsAttestation(p)
  <2> DEFINE V == Verifies(seen[p], files["attestation"], FALSE)
  <2>1. /\ at[p] = "readTree" /\ at' = [at EXCEPT ![p] = "idle"]
        /\ exit' = [exit EXCEPT ![p] = IF files["attestation"] = Nothing THEN 2
                                       ELSE IF V THEN 0 ELSE 1]
        /\ cmd' = cmd /\ seen' = seen
    BY <1>8 DEF VerifyReadsAttestation, Ends, GoesTo, run
  <2>2. ASSUME V
        PROVE  seen[p].whole /\ seen[p].of \in together /\ quality[seen[p].of] # "bad"
    <3>1. /\ seen[p].whole /\ files["attestation"].whole
          /\ seen[p].of = files["attestation"].of /\ quality[seen[p].of] # "bad"
      BY <2>2 DEF Verifies
    <3>2. seen[p] = files["attestation"]
      BY <1>1, <3>1, WholeContent
    <3> QED
      BY <1>4, <2>1, <3>1, <3>2 DEF HasRead
  <2> HIDE DEF V
  <2>3. exit'[p] = 0 => V
    BY <1>1, <2>1
  <2> QED
    BY <1>1, <1>4, <2>1, <2>2, <2>3 DEF Done
<1> QED
  BY <1>5, <1>6, <1>7, <1>8

(* The writer writes the tree of a session nobody has read, and then its   *)
(* attestation beside the tree of the same session.                        *)
LEMMA WriterKeepsPairs ==
  ASSUME TypeInv, RoleInv, NEW w, OnlyWriter(w), PairInv(w), Step(w)
  PROVE  PairInv(w)'
<1>1. /\ files \in [Files -> Content] /\ seen \in [Slots -> Content]
      /\ reply \in [Slots -> [Files -> Content]]
      /\ at \in [Slots -> {"idle", "begin", "waiting", "writes", "writing", "readTree"}]
      /\ cmd \in [Slots -> Commands \cup {"none"}]
      /\ exit \in [Slots -> {0, 1, 2, NotExited, Signalled}]
      /\ left \in [Slots -> Seq(Files)] /\ left[w] \in Outputs
      /\ at[w] = "writing" => left[w] # << >>
      /\ "tree" \in Files /\ "attestation" \in Files /\ w \in Slots
      /\ Len(quality) <= MaxSessions /\ MaxSessions \in Nat
  BY ArtifactsParameters DEF TypeInv, ArtifactsTypeOK, Files, OnlyWriter
<1>2. /\ Len(quality) \in Nat /\ files \in [Files -> Known] /\ seen \in [Slots -> Known]
      /\ reply \in [Slots -> [Files -> Known]]
      /\ Active(w) => cmd[w] # "verify" /\ left[w] \in OutputsFor(cmd[w])
  BY SessionsGrow DEF RoleInv, OnlyWriter
<1>3. /\ files["tree"].whole /\ files["attestation"] = files["tree"] =>
           files["tree"].of \in together
      /\ \A p \in Slots : HasRead(p, files["attestation"]) => seen[p].of \in together
      /\ WritesNow(w) /\ "attestation" \in ToCome(w) =>
           \A p \in Slots : HasRead(p, reply[w]["attestation"]) => files["tree"] = seen[p]
      /\ WritesNow(w) /\ "tree" \in ToCome(w) =>
           ~IsNew(files["tree"]) /\ \A p \in Slots : at[p] = "readTree" => ~IsNew(seen[p])
      /\ WritesNow(w) /\ cmd[w] \in {"attestation", "endorse"} =>
           \A f \in {"tree", "attestation"} : reply[w][f].whole => IsNew(reply[w][f])
      /\ \A p \in Slots : Done(p) /\ cmd[p] = "verify" =>
           seen[p].whole /\ seen[p].of \in together /\ quality[seen[p].of] # "bad"
  BY DEF PairInv
<1>4. CASE Starts(w) \/ VerifyReadsTree(w) \/ VerifyReadsAttestation(w) \/ Killed(w)
  BY <1>1, <1>4, ReadersKeepPairs
<1>5. ASSUME seen' = seen, cmd' = cmd, at'[w] # "readTree", together \subseteq together',
             \A p \in Slots : p # w => at'[p] = at[p] /\ exit'[p] = exit[p],
             at'[w] = "idle" => cmd[w] # "verify" \/ exit'[w] # 0,
             \A s \in 1 .. Len(quality) : quality'[s] = quality[s]
      PROVE  /\ \A p \in Slots : at'[p] = "readTree" => at[p] = "readTree"
             /\ \A p \in Slots : Done(p)' /\ cmd'[p] = "verify" =>
                  seen'[p].whole /\ seen'[p].of \in together' /\ quality'[seen'[p].of] # "bad"
  <2>1. \A p \in Slots : seen[p].whole => seen[p].of \in 1 .. Len(quality)
    BY <1>2 DEF Known, Content
  <2> QED
    BY <1>3, <1>5, <2>1 DEF Done
<1>6. CASE Refuses(w) \/ ReceiveFails(w) \/ AttestationMissing(w) \/ AttestationVerifies(w)
           \/ LastFileEnds(w) \/ ProofDecodes(w)
           \/ AttestationSends(w) \/ EndorseSends(w) \/ ProofSends(w)
  <2>1. /\ UNCHANGED <<files, seen, cmd, quality, together>>
        /\ at' = [at EXCEPT ![w] = "idle"] \/ at' = [at EXCEPT ![w] = "waiting"]
        /\ \A p \in Slots : p # w => exit'[p] = exit[p]
        /\ cmd[w] # "verify"
    BY <1>1, <1>2, <1>6 DEF Refuses, ReceiveFails, AttestationMissing, AttestationVerifies, LastFileEnds,
       ProofDecodes, AttestationSends, EndorseSends, ProofSends, Sends, Ends, GoesTo, run,
       WroteAll, Active, Proves
  <2>2. ~WritesNow(w)' /\ at'[w] # "readTree" /\ \A p \in Slots : p # w => at'[p] = at[p]
    BY <1>1, <2>1 DEF WritesNow
  <2> QED
    BY <1>3, <1>5, <2>1, <2>2 DEF PairInv, HasRead
<1>7. CASE AttestationReceives(w) \/ EndorseReceives(w)
  <2>1. /\ Answers(w) /\ at[w] = "waiting" /\ cmd[w] \in {"attestation", "endorse"}
        /\ UNCHANGED <<files, cmd, left, seen, together>>
        /\ at' = [at EXCEPT ![w] = "idle"] \/ at' = [at EXCEPT ![w] = "writes"]
        /\ \A p \in Slots : p # w => exit'[p] = exit[p]
    BY <1>1, <1>7 DEF AttestationReceives, EndorseReceives, Answers, Ends, GoesTo
  <2>2. quality \in Seq(Qualities)
    BY DEF TypeInv
  <2>3. PICK q \in Qualities : quality' = Append(quality, q)
    BY <2>1 DEF Answers, Qualities
  <2>4. /\ Len(quality') = Len(quality) + 1
        /\ \A s \in 1 .. Len(quality) : quality'[s] = quality[s]
    BY <2>2, <2>3, AppendProperties
  <2>5. PICK t \in {Nothing, Whole(Len(quality'))},
             a \in {Nothing, Torn(Whole(Len(quality'))), Whole(Len(quality'))} :
          reply' = [reply EXCEPT ![w] = [Unanswered EXCEPT !["tree"] = t, !["attestation"] = a]]
    BY <2>1, <2>4 DEF Answers
  <2>6. reply'[w]["tree"] = t /\ reply'[w]["attestation"] = a
    BY <1>1, <2>5 DEF Unanswered, Files
  <2>7. (t.whole => IsNew(t)') /\ (a.whole => IsNew(a)')
    BY DEF IsNew, Whole, Torn, Nothing
  <2>8. \A c \in Known : c.whole => c.of <= Len(quality) /\ c.of \in Nat
    BY DEF Known, Content
  <2>9. \A c \in Known : ~IsNew(c)'
    BY <1>2, <2>4, <2>8 DEF IsNew
  <2>10. files["tree"] \in Known /\ \A p \in Slots : seen[p] \in Known
    BY <1>1, <1>2
  <2>11. \A p \in Slots : ~HasRead(p, a)'
    BY <2>1, <2>7, <2>9, <2>10 DEF HasRead, IsNew
  <2>12. /\ at'[w] # "readTree" /\ \A p \in Slots : p # w => at'[p] = at[p]
    BY <1>1, <2>1
  <2>13. /\ \A p \in Slots : at'[p] = "readTree" => at[p] = "readTree"
         /\ \A p \in Slots : Done(p)' /\ cmd'[p] = "verify" =>
              seen'[p].whole /\ seen'[p].of \in together' /\ quality'[seen'[p].of] # "bad"
    BY <1>5, <2>1, <2>4, <2>12
  <2>14. /\ ~IsNew(files["tree"])' /\ \A p \in Slots : ~IsNew(seen[p])'
    BY <2>1, <2>9, <2>10 DEF IsNew
  <2>15. \A p \in Slots : ~HasRead(p, reply[w]["attestation"])'
    BY <2>6, <2>11 DEF HasRead
  <2>16. \A f \in {"tree", "attestation"} : (reply[w][f].whole => IsNew(reply[w][f]))'
    BY <2>6, <2>7 DEF IsNew
  <2>17. \A p \in Slots : HasRead(p, files["attestation"])' => HasRead(p, files["attestation"])
    BY <2>1, <2>13 DEF HasRead
  <2> QED
    BY <1>3, <2>1, <2>13, <2>14, <2>15, <2>16, <2>17 DEF PairInv
<1>8. CASE ProofReceives(w) \/ ProofPrepares(w)
  <2>1. /\ cmd[w] \in Proves \cup {"prepare"} /\ at' = [at EXCEPT ![w] = "writes"]
        /\ UNCHANGED <<files, cmd, seen, exit, quality, together>>
    BY <1>8 DEF ProofReceives, ProofPrepares, GoesTo
  <2>2. left'[w] \in {<< >>, <<"proof">>, <<"payload">>}
    <3>1. CASE ProofReceives(w)
      BY <1>2, <3>1 DEF ProofReceives, Active, OutputsFor
    <3>2. CASE ProofPrepares(w)
      BY <1>1, <3>2 DEF ProofPrepares
    <3> QED
      BY <1>8, <3>1, <3>2
  <2>3. /\ at'[w] # "readTree" /\ at'[w] # "idle" /\ \A p \in Slots : p # w => at'[p] = at[p]
        /\ ToCome(w)' \subseteq {"proof", "payload"}
        /\ cmd'[w] \notin {"attestation", "endorse", "verify"}
    <3>1. \A l \in {<< >>, <<"proof">>, <<"payload">>} : FilesIn(l) \subseteq {"proof", "payload"}
      BY DEF FilesIn
    <3> QED
      BY <1>1, <2>1, <2>2, <3>1 DEF ToCome, Proves
  <2>4. /\ \A p \in Slots : at'[p] = "readTree" => at[p] = "readTree"
        /\ \A p \in Slots : Done(p)' /\ cmd'[p] = "verify" =>
             seen'[p].whole /\ seen'[p].of \in together' /\ quality'[seen'[p].of] # "bad"
    BY <1>5, <2>1, <2>3
  <2> QED
    BY <1>3, <2>1, <2>3, <2>4 DEF PairInv, HasRead
<1>9. CASE FailsLate(w) \/ CannotOpenFile(w) \/ WriteBreaks(w)
  <2>1. /\ WritesNow(w) /\ left[w] # << >>
        /\ NextFile(w) \/ Ends(w, 2)
        /\ UNCHANGED <<files, cmd, seen, reply, quality, together>>
    BY <1>1, <1>9 DEF FailsLate, CannotOpenFile, WriteBreaks, WriteFails, ToWrite, WritesNow
  <2>2. CASE Ends(w, 2)
    <3>1. /\ at'[w] = "idle" /\ exit'[w] = 2
          /\ \A p \in Slots : p # w => at'[p] = at[p] /\ exit'[p] = exit[p]
      BY <1>1, <2>2 DEF Ends, GoesTo
    <3> QED
      BY <1>3, <1>5, <2>1, <3>1 DEF PairInv, HasRead, WritesNow
  <2>3. CASE NextFile(w)
    <3>1. /\ at' = [at EXCEPT ![w] = "writes"] /\ exit' = exit
          /\ left' = [left EXCEPT ![w] = Tail(left[w])]
      BY <2>3 DEF NextFile, GoesTo
    <3>2. at'[w] = "writes" /\ \A p \in Slots : p # w => at'[p] = at[p]
      BY <1>1, <3>1
    <3>3. ToCome(w)' \subseteq ToCome(w)
      BY <1>1, <2>1, <3>1, FilesInOutputs DEF ToCome
    <3>4. /\ \A p \in Slots : at'[p] = "readTree" => at[p] = "readTree"
          /\ \A p \in Slots : Done(p)' /\ cmd'[p] = "verify" =>
               seen'[p].whole /\ seen'[p].of \in together' /\ quality'[seen'[p].of] # "bad"
      BY <1>5, <2>1, <3>1, <3>2
    <3> QED
      BY <1>3, <2>1, <3>3, <3>4 DEF PairInv, HasRead, IsNew
  <2> QED
    BY <2>1, <2>2, <2>3
<1>10. ASSUME NEW c \in Known, WritesNow(w), left[w] # << >>, Writes(w, c),
              c.whole => at[w] = "writing" /\ c = reply[w][Output(w)]
                         /\ ToCome(w)' = ToCome(w) \ {Output(w)},
              ToCome(w)' \subseteq ToCome(w), WritesNow(w)',
              UNCHANGED <<cmd, seen, reply, exit, quality>>,
              \A p \in Slots : p # w => at'[p] = at[p]
       PROVE  PairInv(w)'
  <2> DEFINE o == Output(w)
  <2>1. /\ o \in Files /\ o \in ToCome(w)
        /\ "tree" \in ToCome(w) => o = "tree"
    BY <1>1, <1>10, FilesInOutputs, RestOfOutputs DEF ToCome, Output
  <2>2. /\ files' = [files EXCEPT ![o] = c] /\ together \subseteq together'
        /\ \A s \in 1 .. MaxSessions :
             files'["tree"] = Whole(s) /\ files'["attestation"] = Whole(s) => s \in together'
    BY <1>10 DEF Writes
  <2> HIDE DEF o
  <2>3. files'[o] = c /\ \A f \in Files : f # o => files'[f] = files[f]
    BY <1>1, <2>1, <2>2
  <2>4. files'["tree"] \in Known
    BY <1>1, <1>2, <1>10, <2>3
  <2>5. files'["tree"].whole /\ files'["attestation"] = files'["tree"] =>
          files'["tree"].of \in together'
    <3> SUFFICES ASSUME files'["tree"].whole, files'["attestation"] = files'["tree"]
                 PROVE  files'["tree"].of \in together'
      OBVIOUS
    <3>1. files'["tree"] = Whole(files'["tree"].of)
      BY <2>4, WholeContent DEF Known
    <3>2. files'["tree"].of \in 1 .. MaxSessions
      BY <1>1, <1>2, <2>4 DEF Known, Content
    <3> QED
      BY <2>2, <3>1, <3>2
  <2>6. \A p \in Slots : at'[p] = "readTree" => p # w /\ at[p] = "readTree"
    BY <1>10 DEF WritesNow
  <2>7. "attestation" \in ToCome(w) => cmd[w] \in {"attestation", "endorse"}
    <3>1. left[w] \in OutputsFor(cmd[w]) /\ cmd[w] \in Commands \ {"verify"}
      BY <1>1, <1>2, <1>10 DEF Active, WritesNow, RoleInv
    <3>2. FilesIn(<<"proof">>) = {"proof"} /\ FilesIn(<<"payload">>) = {"payload"}
          /\ FilesIn(<< >>) = {}
      BY DEF FilesIn
    <3> QED
      BY <3>1, <3>2 DEF OutputsFor, ToCome, Commands
  <2>8. ASSUME NEW p \in Slots, HasRead(p, files["attestation"])'
        PROVE  seen[p].of \in together'
    <3>1. at[p] = "readTree" /\ seen[p].whole /\ seen[p] = files'["attestation"]
      BY <1>10, <2>6, <2>8 DEF HasRead
    <3>2. CASE o # "attestation"
      BY <1>1, <1>3, <2>2, <2>3, <3>1, <3>2 DEF HasRead
    <3>3. CASE o = "attestation"
      <4>1. seen[p] = reply[w]["attestation"]
        BY <1>10, <2>3, <3>1, <3>3 DEF o
      <4>2. files["tree"] = seen[p]
        BY <1>3, <1>10, <2>1, <3>1, <3>3, <4>1 DEF HasRead
      <4>3. files'["tree"] = seen[p] /\ files'["attestation"] = seen[p]
        BY <1>1, <2>3, <3>1, <3>3, <4>2
      <4> QED
        BY <2>5, <3>1, <4>3
    <3> QED
      BY <3>2, <3>3
  <2>9. ASSUME "attestation" \in ToCome(w)', NEW p \in Slots,
               HasRead(p, reply[w]["attestation"])'
        PROVE  files'["tree"] = seen[p]
    <3>1. "attestation" \in ToCome(w) /\ HasRead(p, reply[w]["attestation"])
      BY <1>10, <2>6, <2>9 DEF HasRead
    <3>2. CASE o # "tree"
      BY <1>1, <1>3, <1>10, <2>3, <3>1, <3>2
    <3>3. CASE o = "tree"
      <4>1. ~IsNew(seen[p])
        BY <1>3, <1>10, <2>1, <3>1, <3>3 DEF HasRead
      <4>2. IsNew(reply[w]["attestation"])
        BY <1>3, <1>10, <2>7, <3>1 DEF HasRead
      <4> QED
        BY <3>1, <4>1, <4>2 DEF HasRead
    <3> QED
      BY <3>2, <3>3
  <2>10. ASSUME "tree" \in ToCome(w)'
         PROVE  ~IsNew(files["tree"])' /\ \A p \in Slots : at'[p] = "readTree" => ~IsNew(seen[p])'
    <3>1. "tree" \in ToCome(w) /\ o = "tree"
      BY <1>10, <2>1, <2>10
    <3>2. ~c.whole
      BY <1>10, <2>10, <3>1 DEF o
    <3> QED
      BY <1>3, <1>10, <2>3, <2>6, <3>1, <3>2 DEF IsNew
  <2>11. \A p \in Slots : Done(p)' /\ cmd'[p] = "verify" =>
           seen'[p].whole /\ seen'[p].of \in together' /\ quality'[seen'[p].of] # "bad"
    <3>1. at'[w] # "idle" /\ at'[w] # "readTree"
      BY <1>10 DEF WritesNow
    <3> QED
      BY <1>5, <1>10, <2>2, <3>1
  <2>12. cmd'[w] \in {"attestation", "endorse"} =>
           \A f \in {"tree", "attestation"} : (reply[w][f].whole => IsNew(reply[w][f]))'
    BY <1>3, <1>10 DEF IsNew
  <2> QED
    BY <1>10, <2>5, <2>8, <2>9, <2>10, <2>11, <2>12 DEF PairInv
<1>11. CASE OpensFile(w)
  <2>1. /\ left[w] # << >> /\ Writes(w, Nothing) /\ at[w] = "writes"
        /\ at' = [at EXCEPT ![w] = "writing"]
        /\ UNCHANGED <<cmd, left, seen, reply, exit, quality>>
    BY <1>11 DEF OpensFile, ToWrite, GoesTo, run
  <2>2. Nothing \in Known /\ ~Nothing.whole
    BY NothingKnown DEF Nothing
  <2>3. /\ ToCome(w)' = ToCome(w) /\ WritesNow(w) /\ WritesNow(w)'
        /\ \A p \in Slots : p # w => at'[p] = at[p]
    BY <1>1, <2>1 DEF ToCome, WritesNow
  <2> QED
    BY <1>10, <2>1, <2>2, <2>3
<1>12. CASE Spills(w)
  <2> DEFINE c == Torn(reply[w][Output(w)])
  <2>1. /\ left[w] # << >> /\ Writes(w, c) /\ at[w] = "writing"
        /\ UNCHANGED <<at, cmd, left, seen, reply, exit, quality>>
    BY <1>1, <1>12 DEF Spills, run
  <2>2. reply[w][Output(w)] \in Known /\ reply[w][Output(w)] \in Content
    BY <1>1, <1>2, <2>1, RestOfOutputs DEF Output
  <2>3. c \in Known /\ ~c.whole
    BY <2>2, NothingKnown, TornContent
  <2> HIDE DEF c
  <2>4. ToCome(w)' = ToCome(w) /\ WritesNow(w) /\ WritesNow(w)'
    BY <2>1 DEF ToCome, WritesNow
  <2> QED
    BY <1>10, <2>1, <2>3, <2>4
<1>13. CASE CompletesFile(w)
  <2>1. /\ left[w] # << >> /\ Writes(w, reply[w][Output(w)]) /\ at[w] = "writing"
        /\ at' = [at EXCEPT ![w] = "writes"] /\ left' = [left EXCEPT ![w] = Tail(left[w])]
        /\ UNCHANGED <<cmd, seen, reply, exit, quality>>
    BY <1>1, <1>13 DEF CompletesFile, NextFile, GoesTo
  <2>2. reply[w][Output(w)] \in Known
    BY <1>1, <1>2, <2>1, RestOfOutputs DEF Output
  <2>3. ToCome(w)' = ToCome(w) \ {Output(w)}
    BY <1>1, <2>1, FilesInOutputs DEF ToCome, Output
  <2>4. /\ WritesNow(w) /\ WritesNow(w)' /\ \A p \in Slots : p # w => at'[p] = at[p]
    BY <1>1, <2>1 DEF WritesNow
  <2> QED
    BY <1>10, <2>1, <2>2, <2>3, <2>4
<1> QED
  BY <1>4, <1>6, <1>7, <1>8, <1>9, <1>11, <1>12, <1>13 DEF Step

LEMMA PairStep ==
  ASSUME TypeInv, RoleInv, NEW w, OnlyWriter(w), PairInv(w), [Next]_avars
  PROVE  PairInv(w)'
<1>1. CASE UNCHANGED avars
  BY <1>1 DEF avars, run, counters, PairInv, HasRead, IsNew, WritesNow, Done, ToCome
<1>2. ASSUME NEW p \in Slots, Step(p), p # w PROVE PairInv(w)'
  BY <1>2, OthersRead, ReadersKeepPairs
<1> QED
  BY <1>1, <1>2, WriterKeepsPairs DEF Next

-----------------------------------------------------------------------------
(* The invariant of one writer and its readers, and what follows from it.  *)

WriterInv(w) == TypeInv /\ RoleInv /\ KeptInv(w) /\ PairInv(w)

THEOREM OneWriterInvariant ==
  ASSUME NEW w, OnlyWriter(w)
  PROVE  Spec => []WriterInv(w)
<1>1. Init => WriterInv(w)
  BY InitTypeInv, InitRoleInv, InitKeptInv, InitPairInv DEF WriterInv
<1>2. WriterInv(w) /\ [Next]_avars => WriterInv(w)'
  BY TypeStep, RoleStep, KeptStep, PairStep DEF WriterInv
<1> QED
  BY <1>1, <1>2, PTL DEF Spec

(* Only the writer ends a run of a command that writes. *)
LEMMA WritersSucceed ==
  ASSUME NEW w, OnlyWriter(w), WriterInv(w), NEW p \in Slots,
         NEW c \in Commands \ {"verify"}, Succeeded(p, c)
  PROVE  p = w /\ Done(w) /\ cmd[w] = c /\ left[w] = << >> /\ ToCome(w) = {}
<1>1. cmd[p] = c /\ Done(p)
  BY DEF Succeeded, Done
<1>2. p = w
  BY <1>1 DEF OnlyWriter, WriterInv, RoleInv, Commands, Proves
<1>3. left[w] = << >>
  BY <1>1, <1>2 DEF WriterInv, KeptInv
<1> QED
  BY <1>1, <1>2, <1>3 DEF ToCome, FilesIn

(* verify never accepts a pair of files that were not on disk as a pair,   *)
(* although it reads them at two moments while the writer replaces them.   *)
THEOREM VerifiedPairs ==
  ASSUME NEW w, OnlyWriter(w)
  PROVE  Spec => []VerifiedWereTogether
<1>1. WriterInv(w) => VerifiedWereTogether
  BY DEF WriterInv, PairInv, VerifiedWereTogether, Succeeded, Done
<1> QED
  BY <1>1, OneWriterInvariant, PTL

(* What attestation verified and reported is what its two files hold.      *)
THEOREM AttestationKept ==
  ASSUME NEW w, OnlyWriter(w)
  PROVE  Spec => []AttestationKeptIfFlushed
<1>1. WriterInv(w) => AttestationKeptIfFlushed
  <2> SUFFICES ASSUME WriterInv(w), late = 0, NEW p \in Slots, Succeeded(p, "attestation")
               PROVE  Verifies(files["tree"], files["attestation"], TRUE)
    BY DEF AttestationKeptIfFlushed, AttestationIsKept
  <2>1. Done(w) /\ cmd[w] = "attestation" /\ ToCome(w) = {}
    BY WritersSucceed DEF Commands
  <2>2. /\ Verifies(reply[w]["tree"], reply[w]["attestation"], TRUE)
        /\ wanted[w] = {"tree", "attestation"}
        /\ \A f \in wanted[w] \ ToCome(w) : files[f] = reply[w][f]
    BY <2>1 DEF WriterInv, KeptInv
  <2> QED
    BY <2>1, <2>2
<1> QED
  BY <1>1, OneWriterInvariant, PTL

(* The files endorse was told to write and could write hold its answer.    *)
THEOREM EndorsementKept ==
  ASSUME NEW w, OnlyWriter(w)
  PROVE  Spec => []EndorsementIsKept
<1>1. WriterInv(w) => EndorsementIsKept
  <2> SUFFICES ASSUME WriterInv(w), late = 0, NEW p \in Slots, Succeeded(p, "endorse"),
                      NEW f \in wanted[p]
               PROVE  files[f] = reply[p][f]
    BY DEF EndorsementIsKept
  <2>1. p = w /\ Done(w) /\ cmd[w] = "endorse" /\ ToCome(w) = {}
    BY WritersSucceed DEF Commands
  <2> QED
    BY <2>1 DEF WriterInv, KeptInv
<1> QED
  BY <1>1, OneWriterInvariant, PTL

(* A proof that proof reported is about the tree still in the tree file,   *)
(* or in the payload file it was given, and that payload file holds what   *)
(* was prepared.                                                           *)
THEOREM ProofAboutTree ==
  ASSUME NEW w, OnlyWriter(w)
  PROVE  Spec => []ProofIsAboutTheTree
<1>1. WriterInv(w) => ProofIsAboutTheTree
  <2> SUFFICES ASSUME WriterInv(w), late = 0 PROVE ProofIsAboutTheTree
    BY DEF ProofIsAboutTheTree
  <2>1. ASSUME NEW p \in Slots, NEW c \in Proves, Succeeded(p, c)
        PROVE  files["proof"].whole /\ files["proof"].of = files[RequestFrom(c)].of
    <3>1. p = w /\ Done(w) /\ cmd[w] = c /\ ToCome(w) = {}
      BY <2>1, WritersSucceed DEF Commands, Proves
    <3>2. /\ wanted[w] = {"proof"} /\ sent[w] = files[RequestFrom(c)]
          /\ \A f \in wanted[w] \ ToCome(w) : files[f] = reply[w][f]
          /\ reply[w]["proof"].of = sent[w].of /\ reply[w]["proof"].whole
      BY <2>1, <3>1 DEF WriterInv, KeptInv, Proves
    <3>3. files["proof"] = reply[w]["proof"]
      BY <3>1, <3>2
    <3> QED
      BY <3>2, <3>3
  <2>2. ASSUME NEW p \in Slots, Succeeded(p, "prepare") PROVE files["payload"] = files["tree"]
    <3>1. p = w /\ Done(w) /\ cmd[w] = "prepare" /\ ToCome(w) = {}
      BY <2>2, WritersSucceed DEF Commands
    <3>2. /\ wanted[w] = {"payload"} /\ reply[w]["payload"] = files["tree"]
          /\ \A f \in wanted[w] \ ToCome(w) : files[f] = reply[w][f]
      BY <3>1 DEF WriterInv, KeptInv
    <3> QED
      BY <3>1, <3>2
  <2> QED
    BY <2>1, <2>2 DEF ProofIsAboutTheTree, Proves, RequestFrom
<1> QED
  BY <1>1, OneWriterInvariant, PTL
=============================================================================

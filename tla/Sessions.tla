------------------------------ MODULE Sessions ------------------------------
(***************************************************************************)
(* The commands with one request and one response - status, id, lowmode,   *)
(* highmode, off, firmware, timestamp - and bootlog, which makes two such  *)
(* exchanges and appends the second answer to a file.  Runs follow one     *)
(* another on one port; the device may answer after the client has given   *)
(* up, and nothing but its flag relates an answer to a request.            *)
(*                                                                         *)
(* An exchange is one step to send and one to receive (SwpReceive models   *)
(* what lies between), numbered from 1.  Every receive call expects frame  *)
(* index 0 first, so a late answer is received like a timely one.          *)
(* swp_transport_send never reports a failure.  Options that end a run     *)
(* before it opens the port are left out, and so is bootlog --no-append.   *)
(***************************************************************************)
EXTENDS Integers, SequencesExt

CONSTANTS
  MaxRuns,        \* runs of the client (bound)
  MaxLate,        \* answers sent while a later exchange is waiting (bound)
  MaxLost,        \* requests the line loses (bound)
  MaxWriteErrors, \* failed appends (bound)
  MaxLateErrors   \* write errors that show only when the log is closed (bound)

ASSUME SessionsParameters ==
  {MaxRuns, MaxLate, MaxLost, MaxWriteErrors, MaxLateErrors} \subseteq Nat

(* Requests by what they ask for, and the flags of their answers. *)
Kinds == {"status", "id_get", "id_set", "lowmode", "highmode", "off",
          "firmware", "timestamp", "bootlog"}

ExpectedFlag(k) ==
  CASE k = "status" -> "STATUS_DATA"
    [] k \in {"id_get", "id_set"} -> "ID_DATA"
    [] k \in {"firmware", "timestamp", "bootlog"} -> "DATA"
    [] OTHER -> k

ErrorFlag(k) ==
  CASE k \in {"id_get", "id_set"} -> "ID_ERROR"
    [] k \in {"firmware", "timestamp", "bootlog"} -> "DATA_ERROR"
    [] k = "status" -> "STATUS_ERROR"
    [] k = "off" -> "OFF_ERROR"
    [] k = "lowmode" -> "LOWMODE_ERROR"
    [] k = "highmode" -> "HIGHMODE_ERROR"

VARIABLES
  cmd,        \* command of the run, "none" between runs
  asked,      \* the request of the current exchange: [n, kind], n = 0 if none
  waiting,    \* the port is open and the client waits for its answer
  accepted,   \* the last answer a command took for its own
  key,        \* bootlog: where the device key comes from
  exit,       \* exit code of the last run
  why,        \* the answer, or Silence, that a failed run ended with
  logs,       \* bootlog entries, in the order appended
  inbox,      \* device: requests it has not yet handled
  on,         \* device: has power
  done,       \* device: exchanges it carried out
  line,       \* answers on their way to the client
  n, runs, late, lost, writeErrors, lateErrors

hostVars == <<cmd, asked, waiting, accepted, key, exit, why, logs, n, runs>>
deviceVars == <<inbox, on, done, late>>
errorVars == <<writeErrors, lateErrors>>
bvars == <<hostVars, deviceVars, line, lost, errorVars>>

NotExited == -1
Request(i, k) == [n |-> i, kind |-> k]
NoRequest == Request(0, "none")
Silence == [to |-> NoRequest, flag |-> "none", body |-> "empty"]

IsErrorFlag(flag) == flag \in {ErrorFlag(k) : k \in Kinds}

(* classify_stardome_response_flag *)
Classify(flag, expected) ==
  CASE flag = expected -> "Expected"
    [] flag # expected /\ IsErrorFlag(flag) -> "Error"
    [] OTHER -> "Unexpected"

Init ==
  /\ cmd = "none" /\ asked = NoRequest /\ waiting = FALSE
  /\ accepted = Silence /\ key = "none" /\ exit = NotExited /\ why = Silence
  /\ logs = << >>
  /\ inbox = << >> /\ on = TRUE /\ done = {} /\ line = << >>
  /\ n = 0 /\ runs = 0 /\ late = 0 /\ lost = 0
  /\ writeErrors = 0 /\ lateErrors = 0

-----------------------------------------------------------------------------
(* Opening the port discards what has arrived, then the request is sent.   *)

Sends(kind) ==
  /\ n' = n + 1
  /\ asked' = Request(n + 1, kind)
  /\ waiting' = TRUE
  /\ \/ inbox' = (IF on THEN Append(inbox, Request(n + 1, kind)) ELSE inbox)
        /\ UNCHANGED lost
     \/ lost < MaxLost /\ lost' = lost + 1 /\ UNCHANGED inbox

OpensAndSendsUnflushed(kind) == Sends(kind) /\ UNCHANGED line   \* mutant

OpensAndSends(kind) == Sends(kind) /\ line' = << >>

Ends(code, answer) ==
  /\ cmd' = "none"
  /\ exit' = code
  /\ why' = answer

(* The first request of each command. *)
FirstKind(c) == IF c = "bootlog" THEN "id_get" ELSE c

Begins ==
  /\ cmd = "none" /\ runs < MaxRuns
  /\ runs' = runs + 1
  /\ accepted' = Silence /\ why' = Silence

Starts(c) ==
  /\ Begins
  /\ cmd' = c /\ exit' = NotExited /\ key' = "none"
  /\ OpensAndSends(FirstKind(c))
  /\ UNCHANGED <<logs, on, done, late, errorVars>>

(* The port cannot be opened.  off, firmware and timestamp say so; behind  *)
(* send_payload_and_receive_ex it is the same as no answer.                *)
CannotOpen(c) ==
  /\ Begins
  /\ exit' = IF c \in {"off", "firmware", "timestamp"} THEN 2 ELSE 1
  /\ key' = IF c = "bootlog" THEN "port_timestamp" ELSE "none"
  /\ UNCHANGED <<cmd, asked, waiting, logs, n, deviceVars, line, lost, errorVars>>

(* bootlog could not open the port for the identity, but can for the log. *)
StartsUnidentified ==
  /\ Begins
  /\ cmd' = "bootlog" /\ exit' = NotExited /\ key' = "port_timestamp"
  /\ OpensAndSends("bootlog")
  /\ UNCHANGED <<logs, on, done, late, errorVars>>

-----------------------------------------------------------------------------
(* What a command makes of the answer a; an answer without a byte, or none *)
(* in time, is Silence.                                                    *)

ModeEndsOnAny(a) ==   \* mutant: the flag is not looked at
  Ends(IF a = Silence THEN 1 ELSE 0, a) /\ accepted' = a

EndsWith(a, code) ==
  /\ Ends(code, a)
  /\ accepted' = IF code = 0 THEN a ELSE Silence

ModeEnds(a) ==
  EndsWith(a, IF Classify(a.flag, ExpectedFlag(cmd)) = "Expected" THEN 0 ELSE 1)

OffEnds(a) ==
  EndsWith(a, IF a = Silence \/ Classify(a.flag, "off") = "Expected" THEN 0 ELSE 1)

StatusEnds(a) ==
  EndsWith(a, IF Classify(a.flag, "STATUS_DATA") = "Expected" /\ a.body = "good"
              THEN 0 ELSE 1)

(* What does not decode is taken for the host id of older firmware. *)
IdEnds(a) ==
  EndsWith(a, IF Classify(a.flag, "ID_DATA") = "Expected" THEN 0 ELSE 1)

(* firmware and timestamp expect no answer, but look at one that comes. *)
DataEnds(a) ==
  LET class == Classify(a.flag, "DATA") IN
  EndsWith(a, IF a = Silence \/ class = "Expected" THEN 0
              ELSE IF cmd = "firmware" /\ class = "Error" THEN 5 ELSE 1)

KeySourceNoFallback(a) ==   \* mutant: no key when the device gives none
  IF Classify(a.flag, "ID_DATA") # "Expected" THEN "none" ELSE "device_id"

(* select_identity_key *)
KeySource(a) ==
  IF Classify(a.flag, "ID_DATA") # "Expected" THEN "port_timestamp"
  ELSE CASE a.body = "good" -> "device_id"
         [] a.body = "bare" -> "port_timestamp"   \* both ids are empty
         [] a.body = "odd"  -> "host_id_legacy"   \* does not decode

(* bootlog goes on to the log whatever came of the identity, if the port   *)
(* opens once more.                                                        *)
IdentityEnds(a) ==
  /\ key' = KeySource(a)
  /\ \/ OpensAndSends("bootlog") /\ UNCHANGED <<cmd, exit, why, accepted>>
     \/ /\ EndsWith(Silence, 1)
        /\ waiting' = FALSE
        /\ UNCHANGED <<asked, n, inbox, line, lost>>
  /\ UNCHANGED <<logs, on, done, late, runs, errorVars>>

Entry(a, whole) == [answer |-> a, key |-> key, whole |-> whole]

LogAcceptsAny(a) ==   \* mutant: errors are refused, other flags are not
  IF a = Silence \/ Classify(a.flag, "DATA") = "Error"
  THEN EndsWith(a, 1) /\ UNCHANGED <<logs, errorVars>>
  ELSE /\ EndsWith(a, 0)
       /\ logs' = Append(logs, Entry(a, TRUE))
       /\ UNCHANGED errorVars

(* The append fails: nothing or a part is written. *)
AppendFails(a) ==
  /\ writeErrors < MaxWriteErrors
  /\ writeErrors' = writeErrors + 1
  /\ EndsWith(a, 1)
  /\ logs' \in {logs, Append(logs, Entry(a, FALSE))}
  /\ UNCHANGED lateErrors

(* The bytes fit the stream's buffer, and the write fails only when the    *)
(* stream is destroyed, after out.good() was looked at.                    *)
AppendFailsLate(a) ==
  /\ lateErrors < MaxLateErrors
  /\ lateErrors' = lateErrors + 1
  /\ EndsWith(a, 0)
  /\ logs' \in {logs, Append(logs, Entry(a, FALSE))}
  /\ UNCHANGED writeErrors

LogEndsTruncating(a) ==   \* mutant: the file is not opened for appending
  IF Classify(a.flag, "DATA") # "Expected"
  THEN EndsWith(a, 1) /\ UNCHANGED <<logs, errorVars>>
  ELSE /\ EndsWith(a, 0)
       /\ logs' = <<Entry(a, TRUE)>>
       /\ UNCHANGED errorVars

LogEnds(a) ==
  IF Classify(a.flag, "DATA") # "Expected"
  THEN EndsWith(a, 1) /\ UNCHANGED <<logs, errorVars>>
  ELSE \/ /\ EndsWith(a, 0)
          /\ logs' = Append(logs, Entry(a, TRUE))
          /\ UNCHANGED errorVars
       \/ AppendFails(a)
       \/ AppendFailsLate(a)

JudgesIdentity == cmd = "bootlog" /\ asked.kind = "id_get"

(* The port is closed before the last answer of a run is judged. *)
Judges(a) ==
  /\ ~JudgesIdentity
  /\ waiting' = FALSE
  /\ UNCHANGED <<asked, key, n, runs, deviceVars, lost>>
  /\ \/ cmd = "bootlog" /\ LogEnds(a)
     \/ /\ \/ cmd \in {"lowmode", "highmode"} /\ ModeEnds(a)
           \/ cmd = "off" /\ OffEnds(a)
           \/ cmd = "status" /\ StatusEnds(a)
           \/ cmd \in {"id_get", "id_set"} /\ IdEnds(a)
           \/ cmd \in {"firmware", "timestamp"} /\ DataEnds(a)
        /\ UNCHANGED <<logs, errorVars>>

(* receive_ex reports an answer without a byte as no answer. *)
Received == IF Head(line).body = "empty" THEN Silence ELSE Head(line)

Receives ==
  /\ waiting /\ line # << >>
  /\ \/ Judges(Received) /\ line' = Tail(line)
     \/ JudgesIdentity /\ IdentityEnds(Received)

TimesOut ==
  /\ waiting
  /\ \/ Judges(Silence) /\ UNCHANGED line
     \/ JudgesIdentity /\ IdentityEnds(Silence)

-----------------------------------------------------------------------------
(* The device. *)

Bodies(k) ==
  CASE k \in {"id_get", "id_set"} -> {"good", "bare", "odd", "empty"}
    [] k = "status" -> {"good", "odd", "empty"}
    [] OTHER -> {"good", "empty"}

(* An answer that the client no longer waits for is a late one. *)
Replies(r, flag, body) ==
  /\ late' = late + (IF waiting /\ r # asked THEN 1 ELSE 0)
  /\ late' <= MaxLate
  /\ line' = Append(line, [to |-> r, flag |-> flag, body |-> body])

DeviceCarriesOut ==
  /\ on /\ inbox # << >>
  /\ LET r == Head(inbox) IN
       /\ done' = done \cup {r.n}
       /\ on' = (r.kind # "off")
       /\ inbox' = IF r.kind = "off" THEN << >> ELSE Tail(inbox)
       /\ \/ UNCHANGED <<line, late>>
          \/ \E b \in Bodies(r.kind) : Replies(r, ExpectedFlag(r.kind), b)
  /\ UNCHANGED <<hostVars, lost, errorVars>>

DeviceRefuses ==
  /\ on /\ inbox # << >>
  /\ inbox' = Tail(inbox)
  /\ \E b \in {"good", "empty"} :
       Replies(Head(inbox), ErrorFlag(Head(inbox).kind), b)
  /\ UNCHANGED <<hostVars, on, done, lost, errorVars>>

DevicePowersUp ==
  /\ ~on
  /\ on' = TRUE
  /\ UNCHANGED <<hostVars, inbox, done, late, line, lost, errorVars>>

Next ==
  \/ \E c \in Kinds : Starts(c) \/ CannotOpen(c)
  \/ StartsUnidentified
  \/ Receives \/ TimesOut
  \/ DeviceCarriesOut \/ DeviceRefuses \/ DevicePowersUp

Spec == Init /\ [][Next]_bvars

-----------------------------------------------------------------------------
(* Properties. *)

Requests == [n : 0 .. 2 * MaxRuns, kind : Kinds \cup {"none"}]
Answers == [to : Requests, flag : {"none"} \cup {ExpectedFlag(k) : k \in Kinds}
                                    \cup {ErrorFlag(k) : k \in Kinds},
            body : {"good", "bare", "odd", "empty"}]
Keys == {"none", "device_id", "host_id_legacy", "port_timestamp"}

(* Variables keep their types; the client waits exactly while a command    *)
(* runs, and a log is appended only under a key that was chosen.           *)
SessionsTypeOK ==
  /\ cmd \in Kinds \cup {"none"} /\ asked \in Requests
  /\ waiting = (cmd # "none") /\ on \in BOOLEAN
  /\ accepted \in Answers /\ why \in Answers
  /\ key \in Keys /\ exit \in {NotExited, 0, 1, 2, 5}
  /\ logs \in Seq([answer : Answers, key : Keys \ {"none"}, whole : BOOLEAN])
  /\ inbox \in Seq(Requests) /\ line \in Seq(Answers)
  /\ done \subseteq 1 .. 2 * MaxRuns
  /\ n \in 0 .. 2 * MaxRuns /\ runs \in 0 .. MaxRuns

(* The answer that a run succeeds on is one to some request of the same    *)
(* class, which the device has carried out.                                *)
SuccessIsServed ==
  exit = 0 /\ accepted # Silence =>
    /\ accepted.to.n \in done
    /\ ExpectedFlag(accepted.to.kind) = ExpectedFlag(asked.kind)

(* Whatever comes late, SuccessIsServed.                                   *)
(* While the device does not answer a request that the client has given up *)
(* while the next is waiting: a run that succeeds took the answer to its   *)
(* own, last request, which the device has carried out (off, firmware and  *)
(* timestamp also succeed without an answer), and a run that reports what  *)
(* it received reports the answer to its own request, which the device     *)
(* refused, or a status that is none, or a log that could not be written.  *)
OutcomeIsTheDevices ==
  /\ SuccessIsServed
  /\ late = 0 =>
       /\ exit = 0 =>
            \/ accepted = Silence /\ asked.kind \in {"off", "firmware", "timestamp"}
            \/ accepted.to = asked /\ asked.n \in done
       /\ exit > 0 /\ why # Silence =>
            /\ why.to = asked
            /\ \/ asked.n \notin done
               \/ asked.kind = "status" /\ why.body # "good"
               \/ asked.kind = "bootlog" /\ writeErrors > 0

(* Whatever answers come late: what bootlog appends is data of an exchange *)
(* the device carried out, never an identity or an error report; no answer *)
(* is appended twice; and a run that succeeds left its answer, whole, at   *)
(* the end of the log, unless a write failed as the log was closed.        *)
LogsAreData ==
  /\ \A i \in DOMAIN logs :
       logs[i].answer.flag = "DATA" /\ logs[i].answer.to.n \in done
  /\ \A i, j \in DOMAIN logs : logs[i].answer = logs[j].answer => i = j
  /\ exit = 0 /\ asked.kind = "bootlog" /\ lateErrors = 0 =>
       logs # << >> /\ Last(logs) = Entry(accepted, TRUE)

(* Across runs, whatever is late, lost or not written: nothing is carried  *)
(* out twice, and the log is only ever extended at its end, by an answer   *)
(* that is not in it yet.                                                  *)
Kept == INSTANCE AnswerLog WITH
  Exchanges <- 1 .. 2 * MaxRuns, served <- done, log <- [i \in DOMAIN logs |-> logs[i].answer.to.n]
ImplementsLog == Kept!Spec

(* "appends the returned bootlog to a host log" (README.md): what is       *)
(* appended answers a bootlog request.                                     *)
LogsAreBootlogs == \A i \in DOMAIN logs : logs[i].answer.to.kind = "bootlog"

=============================================================================

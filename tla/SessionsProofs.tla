--------------------------- MODULE SessionsProofs ---------------------------
(***************************************************************************)
(* Proofs about Sessions for any number of runs, late answers, lost        *)
(* requests and failed writes.                                             *)
(***************************************************************************)
EXTENDS Sessions, TLAPS, SequenceTheorems

-----------------------------------------------------------------------------
(* Sequences, element by element. *)

LEMMA AppendElements ==
  ASSUME NEW S, NEW s \in Seq(S), NEW e \in S
  PROVE  /\ Append(s, e) \in Seq(S)
         /\ \A i \in DOMAIN Append(s, e) :
              \/ i \in DOMAIN s /\ Append(s, e)[i] = s[i]
              \/ i = Len(s) + 1 /\ Append(s, e)[i] = e
         /\ Append(s, e) # << >> /\ Last(Append(s, e)) = e
<1>1. /\ Append(s, e) \in Seq(S) /\ Len(Append(s, e)) = Len(s) + 1
      /\ \A i \in 1 .. Len(s) : Append(s, e)[i] = s[i]
      /\ Append(s, e)[Len(s) + 1] = e
      /\ DOMAIN Append(s, e) = 1 .. Len(Append(s, e)) /\ DOMAIN s = 1 .. Len(s)
  BY AppendProperties, LenProperties
<1>2. Len(s) \in Nat /\ 1 .. Len(s) + 1 = (1 .. Len(s)) \cup {Len(s) + 1}
  BY LenProperties
<1>3. Len(<< >>) = 0
  OBVIOUS
<1>4. Append(s, e) # << >> /\ Last(Append(s, e)) = e
  BY <1>1, <1>2, <1>3 DEF Last
<1> QED
  BY <1>1, <1>2, <1>4

LEMMA TailElements ==
  ASSUME NEW S, NEW s \in Seq(S), s # << >>
  PROVE  /\ Head(s) \in S /\ Head(s) = s[1] /\ 1 \in DOMAIN s /\ Tail(s) \in Seq(S)
         /\ \A i \in DOMAIN Tail(s) : i \in Nat /\ i # 0 /\ i + 1 \in DOMAIN s /\ Tail(s)[i] = s[i + 1]
<1>1. /\ Head(s) \in S /\ Head(s) = s[1] /\ Len(s) \in Nat /\ Len(s) # 0 /\ DOMAIN s = 1 .. Len(s)
      /\ Tail(s) \in Seq(S) /\ Len(Tail(s)) = Len(s) - 1
      /\ \A i \in 1 .. Len(Tail(s)) : Tail(s)[i] = s[i + 1]
  BY HeadTailProperties, LenProperties, EmptySeq
<1>2. DOMAIN Tail(s) = 1 .. Len(Tail(s))
  BY <1>1, LenProperties
<1> QED
  BY <1>1, <1>2

-----------------------------------------------------------------------------
(* Flags. *)

LEMMA FlagsDiffer ==
  /\ \A k, m \in Kinds : ErrorFlag(k) # ExpectedFlag(m)
  /\ \A k \in Kinds : ExpectedFlag(k) # "none" /\ ErrorFlag(k) # "none"
BY DEF Kinds, ErrorFlag, ExpectedFlag

LEMMA ClassifyExpects ==
  ASSUME NEW flag, NEW expected
  PROVE  (Classify(flag, expected) = "Expected") <=> (flag = expected)
BY DEF Classify

LEMMA ClassifyErrs ==
  ASSUME NEW flag, NEW expected, Classify(flag, expected) = "Error"
  PROVE  flag # expected
BY DEF Classify

-----------------------------------------------------------------------------
(* Requests have numbers of their own, an answer carries the number of its *)
(* request, and its flag tells whether the device carried the request out. *)

Sent == [n : 1 .. n, kind : Kinds]
Flags == {ExpectedFlag(k) : k \in Kinds} \cup {ErrorFlag(k) : k \in Kinds}
Given == [to : Sent, flag : Flags, body : {"good", "bare", "odd", "empty"}]
Entries == [answer : Given, key : Keys \ {"none"}, whole : BOOLEAN]

TruthfulIf(a, carried) ==
  \/ a.flag = ExpectedFlag(a.to.kind) /\ a.to.n \in carried
  \/ a.flag = ErrorFlag(a.to.kind) /\ a.to.n \notin carried
Truthful(a) == TruthfulIf(a, done)

CountInv ==
  /\ n \in Nat /\ runs \in 0 .. MaxRuns /\ n <= 2 * runs
  /\ cmd # "none" /\ asked.kind = "id_get" => n <= 2 * runs - 1

AskInv ==
  /\ cmd \in Kinds \cup {"none"} /\ waiting \in BOOLEAN /\ on \in BOOLEAN
  /\ waiting <=> cmd # "none"
  /\ \/ asked = NoRequest /\ cmd = "none"
     \/ asked \in Sent /\ asked.n = n
  /\ cmd # "none" => /\ exit = NotExited
                     /\ \/ cmd = asked.kind
                        \/ cmd = "bootlog" /\ asked.kind = "id_get"
  /\ key \in Keys
  /\ cmd = "bootlog" /\ asked.kind = "bootlog" => key # "none"
  /\ exit \in {NotExited, 0, 1, 2, 5}
  /\ accepted \in Given \cup {Silence} /\ why \in Given \cup {Silence}
  /\ late \in Nat /\ writeErrors \in Nat /\ lateErrors \in Nat

DeviceInv ==
  /\ inbox \in Seq(Sent) /\ done \subseteq 1 .. n
  /\ \A i \in DOMAIN inbox : inbox[i].n \notin done
  /\ \A i, j \in DOMAIN inbox : inbox[i].n = inbox[j].n => i = j

LineInv ==
  /\ line \in Seq(Given)
  /\ \A i \in DOMAIN line : Truthful(line[i])
  /\ \A i \in DOMAIN line, j \in DOMAIN inbox : line[i].to.n # inbox[j].n
  /\ \A i, j \in DOMAIN line : line[i].to.n = line[j].to.n => i = j

LogInv ==
  /\ logs \in Seq(Entries)
  /\ \A i \in DOMAIN logs : logs[i].answer.flag = "DATA" /\ logs[i].answer.to.n \in done
  /\ \A i, j \in DOMAIN logs : logs[i].answer.to.n = logs[j].answer.to.n => i = j
  /\ \A i \in DOMAIN logs, j \in DOMAIN line : logs[i].answer.to.n # line[j].to.n

(* The end of the log of a run that succeeded. *)
LastInv ==
  exit = 0 /\ asked.kind = "bootlog" /\ lateErrors = 0 =>
    logs # << >> /\ Last(logs) = Entry(accepted, TRUE)

(* Without a late answer, the line holds answers to what is asked, and the *)
(* request a run reports a refusal of is no longer on its way.             *)
OwnInv ==
  late = 0 =>
    /\ waiting => \A i \in DOMAIN line : line[i].to = asked
    /\ exit > 0 /\ why # Silence => \A j \in DOMAIN inbox : inbox[j].n # asked.n

SessionsInv ==
  /\ CountInv /\ AskInv /\ DeviceInv /\ LineInv /\ LogInv /\ LastInv
  /\ OwnInv /\ OutcomeIsTheDevices

LEMMA NumbersGrow ==
  ASSUME n \in Nat, n' \in Nat, n <= n'
  PROVE  /\ Sent \subseteq Sent' /\ Given \subseteq Given' /\ Entries \subseteq Entries'
         /\ Seq(Sent) \subseteq Seq(Sent') /\ Seq(Given) \subseteq Seq(Given')
         /\ Seq(Entries) \subseteq Seq(Entries')
<1>1. Sent \subseteq Sent'
  BY DEF Sent
<1>2. Given \subseteq Given'
  BY <1>1 DEF Given
<1>3. Entries \subseteq Entries'
  BY <1>2 DEF Entries
<1> QED
  BY <1>1, <1>2, <1>3, SeqMonotonic

(* A truthful answer to what was asked. *)
LEMMA TruthfulMeans ==
  ASSUME NEW a \in Given, Truthful(a), NEW k \in Kinds
  PROVE  /\ a.flag = ExpectedFlag(k) => a.to.n \in done
         /\ a.to.kind = k /\ a.flag # ExpectedFlag(k) => a.to.n \notin done
BY FlagsDiffer DEF Truthful, TruthfulIf, Given, Sent

-----------------------------------------------------------------------------
(* What judging an answer, or silence, does to a run. *)

Outcome(a) ==
  /\ cmd' = "none" /\ waiting' = FALSE
  /\ UNCHANGED <<asked, key, n, runs, inbox, on, done, late>>
  /\ exit' \in {0, 1, 5} /\ why' = a
  /\ accepted' = (IF exit' = 0 THEN a ELSE Silence)
  /\ writeErrors' \in Nat /\ lateErrors' \in Nat

Success(a) ==
  exit' = 0 =>
    \/ a = Silence /\ asked.kind \in {"off", "firmware", "timestamp"}
    \/ a.flag = ExpectedFlag(asked.kind)

Failure(a) ==
  exit' > 0 /\ a # Silence =>
    \/ a.flag # ExpectedFlag(asked.kind)
    \/ asked.kind = "status" /\ a.body # "good"
    \/ asked.kind = "bootlog" /\ writeErrors' > 0

Logged(a) ==
  /\ \/ UNCHANGED logs
     \/ /\ asked.kind = "bootlog" /\ a.flag = "DATA"
        /\ \E whole \in BOOLEAN : logs' = Append(logs, Entry(a, whole))
  /\ exit' = 0 /\ asked.kind = "bootlog" /\ lateErrors' = 0 =>
       logs' = Append(logs, Entry(a, TRUE))

LEMMA WholeOrNot ==
  ASSUME NEW a, NEW whole \in BOOLEAN, logs' = Append(logs, Entry(a, whole))
  PROVE  \E w \in BOOLEAN : logs' = Append(logs, Entry(a, w))
OBVIOUS

LEMMA JudgesMeans ==
  ASSUME AskInv, waiting, NEW a, Judges(a)
  PROVE  Outcome(a) /\ Success(a) /\ Failure(a) /\ Logged(a)
<1>1. /\ cmd = asked.kind /\ cmd \in Kinds /\ ~JudgesIdentity /\ waiting' = FALSE
      /\ UNCHANGED <<asked, key, n, runs, inbox, on, done, late>>
  BY DEF Judges, AskInv, deviceVars, JudgesIdentity
<1>2. ASSUME NEW code \in {0, 1, 5}, EndsWith(a, code), writeErrors' \in Nat, lateErrors' \in Nat
      PROVE  Outcome(a) /\ exit' = code
  BY <1>1, <1>2 DEF EndsWith, Ends, Outcome
<1>3. writeErrors \in Nat /\ lateErrors \in Nat
  BY DEF AskInv
<1>4. CASE cmd = "bootlog" /\ LogEnds(a)
  <2>1. ExpectedFlag("bootlog") = "DATA"
    BY DEF ExpectedFlag
  <2>2. CASE Classify(a.flag, "DATA") # "Expected"
    <3>1. EndsWith(a, 1) /\ UNCHANGED <<logs, writeErrors, lateErrors>>
      BY <1>4, <2>2 DEF LogEnds, errorVars
    <3>2. Outcome(a) /\ exit' = 1
      BY <1>2, <1>3, <3>1
    <3>3. a.flag # "DATA"
      BY <2>2, ClassifyExpects
    <3> QED
      BY <1>1, <1>4, <2>1, <3>1, <3>2, <3>3 DEF Success, Failure, Logged
  <2>3. CASE Classify(a.flag, "DATA") = "Expected"
    <3>1. a.flag = "DATA"
      BY <2>3, ClassifyExpects
    <3>2. CASE EndsWith(a, 0) /\ logs' = Append(logs, Entry(a, TRUE)) /\ UNCHANGED errorVars
      <4>1. Outcome(a) /\ exit' = 0
        BY <1>2, <1>3, <3>2 DEF errorVars
      <4>2. Logged(a)
        BY <1>1, <1>4, <3>1, <3>2, WholeOrNot DEF Logged
      <4>3. Success(a) /\ Failure(a)
        BY <1>1, <1>4, <2>1, <3>1, <4>1 DEF Success, Failure
      <4> QED
        BY <4>1, <4>2, <4>3
    <3>3. CASE AppendFails(a)
      <4>1. /\ EndsWith(a, 1) /\ writeErrors' = writeErrors + 1 /\ lateErrors' = lateErrors
            /\ logs' = logs \/ logs' = Append(logs, Entry(a, FALSE))
        BY <3>3 DEF AppendFails
      <4>2. writeErrors' \in Nat /\ writeErrors' > 0 /\ lateErrors' \in Nat
        BY <1>3, <4>1
      <4>3. Outcome(a) /\ exit' = 1
        BY <1>2, <4>1, <4>2
      <4>4. Logged(a)
        <5>1. exit' # 0
          BY <4>3
        <5>2. logs' = logs \/ \E w \in BOOLEAN : logs' = Append(logs, Entry(a, w))
          BY <4>1, WholeOrNot
        <5> QED
          BY <1>1, <1>4, <3>1, <5>1, <5>2 DEF Logged
      <4>5. Success(a) /\ Failure(a)
        BY <1>1, <1>4, <4>2, <4>3 DEF Success, Failure
      <4> QED
        BY <4>3, <4>4, <4>5
    <3>4. CASE AppendFailsLate(a)
      <4>1. /\ EndsWith(a, 0) /\ lateErrors' = lateErrors + 1 /\ writeErrors' = writeErrors
            /\ logs' = logs \/ logs' = Append(logs, Entry(a, FALSE))
        BY <3>4 DEF AppendFailsLate
      <4>2. lateErrors' \in Nat /\ lateErrors' # 0 /\ writeErrors' \in Nat
        BY <1>3, <4>1
      <4>3. Outcome(a) /\ exit' = 0
        BY <1>2, <4>1, <4>2
      <4>4. Logged(a)
        BY <1>1, <1>4, <3>1, <4>1, <4>2, WholeOrNot DEF Logged
      <4>5. Success(a) /\ Failure(a)
        BY <1>1, <1>4, <2>1, <3>1, <4>3 DEF Success, Failure
      <4> QED
        BY <4>3, <4>4, <4>5
    <3> QED
      BY <1>4, <2>3, <3>2, <3>3, <3>4 DEF LogEnds
  <2> QED
    BY <2>2, <2>3
<1>5. CASE /\ \/ cmd \in {"lowmode", "highmode"} /\ ModeEnds(a)
              \/ cmd = "off" /\ OffEnds(a)
              \/ cmd = "status" /\ StatusEnds(a)
              \/ cmd \in {"id_get", "id_set"} /\ IdEnds(a)
              \/ cmd \in {"firmware", "timestamp"} /\ DataEnds(a)
           /\ UNCHANGED <<logs, errorVars>>
  <2> DEFINE E == ExpectedFlag(cmd)
  <2>1. cmd # "bootlog" /\ UNCHANGED <<logs, writeErrors, lateErrors>>
    BY <1>5 DEF errorVars
  <2>2. \E code \in {0, 1, 5} :
          /\ EndsWith(a, code)
          /\ code = 0 => \/ a = Silence /\ cmd \in {"off", "firmware", "timestamp"}
                         \/ a.flag = E
          /\ code # 0 => \/ a.flag # E
                         \/ cmd = "status" /\ a.body # "good"
    <3>1. CASE cmd \in {"lowmode", "highmode"} /\ ModeEnds(a)
      BY <3>1, ClassifyExpects DEF ModeEnds
    <3>2. CASE cmd = "off" /\ OffEnds(a)
      BY <3>2, ClassifyExpects DEF OffEnds, ExpectedFlag
    <3>3. CASE cmd = "status" /\ StatusEnds(a)
      BY <3>3, ClassifyExpects DEF StatusEnds, ExpectedFlag
    <3>4. CASE cmd \in {"id_get", "id_set"} /\ IdEnds(a)
      BY <3>4, ClassifyExpects DEF IdEnds, ExpectedFlag
    <3>5. CASE cmd \in {"firmware", "timestamp"} /\ DataEnds(a)
      <4>1. E = "DATA"
        BY <3>5 DEF ExpectedFlag
      <4> QED
        BY <3>5, <4>1, ClassifyExpects, ClassifyErrs DEF DataEnds
    <3> QED
      BY <1>5, <3>1, <3>2, <3>3, <3>4, <3>5
  <2>3. PICK code \in {0, 1, 5} :
          /\ EndsWith(a, code)
          /\ code = 0 => \/ a = Silence /\ cmd \in {"off", "firmware", "timestamp"}
                         \/ a.flag = E
          /\ code # 0 => \/ a.flag # E
                         \/ cmd = "status" /\ a.body # "good"
    BY <2>2
  <2>4. Outcome(a) /\ exit' = code
    BY <1>2, <1>3, <2>1, <2>3
  <2>5. Logged(a)
    BY <1>1, <2>1 DEF Logged
  <2>6. Success(a) /\ Failure(a)
    BY <1>1, <2>3, <2>4 DEF Success, Failure
  <2> QED
    BY <2>4, <2>5, <2>6
<1> QED
  BY <1>4, <1>5 DEF Judges

-----------------------------------------------------------------------------
(* An exchange begins. *)

(* What goes with the request of an exchange. *)
RunsOn(kind) ==
  /\ UNCHANGED <<logs, on, done, late, writeErrors, lateErrors>>
  /\ runs' \in 0 .. MaxRuns /\ n + 1 <= 2 * runs'
  /\ kind = "id_get" => n + 1 <= 2 * runs' - 1
  /\ exit' = NotExited
  /\ accepted' = Silence \/ accepted' = accepted
  /\ why' = Silence \/ why' = why

Commands(kind) ==
  /\ cmd' \in Kinds /\ key' \in Keys
  /\ \/ cmd' = kind
     \/ cmd' = "bootlog" /\ kind = "id_get"
  /\ cmd' = "bootlog" /\ kind = "bootlog" => key' # "none"

LEMMA SendKeeps ==
  ASSUME SessionsInv, NEW kind \in Kinds, OpensAndSends(kind), RunsOn(kind), Commands(kind)
  PROVE  SessionsInv'
<1> USE DEF RunsOn, Commands
<1>1. /\ n' = n + 1 /\ asked' = Request(n + 1, kind) /\ waiting' = TRUE /\ line' = << >>
      /\ inbox' = inbox \/ inbox' = Append(inbox, Request(n + 1, kind))
  BY DEF OpensAndSends, Sends
<1>2. /\ n \in Nat /\ n' \in Nat /\ n <= n' /\ 1 .. n \subseteq 1 .. n'
      /\ n + 1 \in 1 .. n' /\ n + 1 \notin 1 .. n
  BY <1>1 DEF SessionsInv, CountInv
<1>3. /\ Sent \subseteq Sent' /\ Given \subseteq Given' /\ Entries \subseteq Entries'
      /\ Seq(Sent) \subseteq Seq(Sent') /\ Seq(Entries) \subseteq Seq(Entries')
  BY <1>2, NumbersGrow
<1>4. /\ asked' \in Sent' /\ asked'.n = n' /\ asked'.kind = kind
      /\ Request(n + 1, kind).n = n + 1 /\ Request(n + 1, kind) \in Sent'
  BY <1>1, <1>2 DEF Request, Sent
<1>5. CountInv'
  BY <1>1, <1>2, <1>4 DEF CountInv
<1>6. AskInv'
  <2>1. /\ accepted' \in Given' \cup {Silence} /\ why' \in Given' \cup {Silence}
        /\ on' \in BOOLEAN /\ late' \in Nat /\ writeErrors' \in Nat /\ lateErrors' \in Nat
    BY <1>3 DEF SessionsInv, AskInv
  <2>2. cmd' # "none"
    BY DEF Kinds
  <2> QED
    BY <1>1, <1>4, <2>1, <2>2 DEF AskInv
<1>7. DeviceInv'
  <2>1. /\ inbox \in Seq(Sent') /\ done' \subseteq 1 .. n'
        /\ \A i \in DOMAIN inbox : inbox[i].n \in 1 .. n
    <3>1. inbox \in Seq(Sent) /\ done \subseteq 1 .. n
      BY DEF SessionsInv, DeviceInv
    <3>2. \A i \in DOMAIN inbox : inbox[i] \in Sent
      BY <3>1, ElementOfSeq, LenProperties
    <3> QED
      BY <1>2, <1>3, <3>1, <3>2 DEF Sent
  <2>2. CASE inbox' = inbox
    BY <2>1, <2>2 DEF SessionsInv, DeviceInv
  <2>3. CASE inbox' = Append(inbox, Request(n + 1, kind))
    <3>1. /\ inbox' \in Seq(Sent')
          /\ \A i \in DOMAIN inbox' :
               \/ i \in DOMAIN inbox /\ inbox'[i] = inbox[i]
               \/ i = Len(inbox) + 1 /\ inbox'[i] = Request(n + 1, kind)
      BY <1>4, <2>1, <2>3, AppendElements
    <3>2. n + 1 \notin done
      BY <1>2 DEF SessionsInv, DeviceInv
    <3>3. \A i \in DOMAIN inbox' : inbox'[i].n \notin done
      BY <1>4, <3>1, <3>2 DEF SessionsInv, DeviceInv
    <3>4. ASSUME NEW i \in DOMAIN inbox', NEW j \in DOMAIN inbox', inbox'[i].n = inbox'[j].n
          PROVE  i = j
      BY <1>2, <1>4, <2>1, <3>1, <3>4 DEF SessionsInv, DeviceInv
    <3> QED
      BY <2>1, <3>1, <3>3, <3>4 DEF DeviceInv
  <2> QED
    BY <1>1, <2>2, <2>3
<1>8. DOMAIN line' = {}
  BY <1>1
<1>9. LineInv'
  BY <1>1, <1>8 DEF LineInv
<1>10. LogInv'
  BY <1>3, <1>8 DEF SessionsInv, LogInv
<1>11. exit' # 0 /\ ~(exit' > 0)
  BY DEF NotExited
<1>12. LastInv' /\ OwnInv' /\ OutcomeIsTheDevices'
  BY <1>8, <1>11 DEF LastInv, OwnInv, OutcomeIsTheDevices, SuccessIsServed
<1> QED
  BY <1>5, <1>6, <1>7, <1>9, <1>10, <1>12 DEF SessionsInv

-----------------------------------------------------------------------------
(* A run ends. *)

(* The answer a, or silence, has left the line. *)
Taken(a) ==
  /\ line' \in Seq(Given)
  /\ \A i \in DOMAIN line' : \E j \in DOMAIN line : line'[i] = line[j]
  /\ \A i, j \in DOMAIN line' : line'[i].to.n = line'[j].to.n => i = j
  /\ a # Silence =>
       /\ a \in Given /\ Truthful(a)
       /\ \A j \in DOMAIN inbox : inbox[j].n # a.to.n
       /\ \A i \in DOMAIN line' : line'[i].to.n # a.to.n
       /\ \A i \in DOMAIN logs : logs[i].answer.to.n # a.to.n
       /\ late = 0 => a.to = asked

LEMMA HeadTaken ==
  ASSUME SessionsInv, waiting, line # << >>, line' = Tail(line)
  PROVE  Taken(Received)
<1>1. /\ line \in Seq(Given)
      /\ \A i \in DOMAIN line : Truthful(line[i])
      /\ \A i \in DOMAIN line, j \in DOMAIN inbox : line[i].to.n # inbox[j].n
      /\ \A i, j \in DOMAIN line : line[i].to.n = line[j].to.n => i = j
      /\ \A i \in DOMAIN logs, j \in DOMAIN line : logs[i].answer.to.n # line[j].to.n
      /\ late = 0 => \A i \in DOMAIN line : line[i].to = asked
  BY DEF SessionsInv, LineInv, LogInv, OwnInv
<1>2. /\ Head(line) \in Given /\ Head(line) = line[1] /\ 1 \in DOMAIN line /\ line' \in Seq(Given)
      /\ \A i \in DOMAIN line' :
           i \in Nat /\ i # 0 /\ i + 1 \in DOMAIN line /\ line'[i] = line[i + 1]
  BY <1>1, TailElements
<1>3. ASSUME NEW i \in DOMAIN line', NEW j \in DOMAIN line', line'[i].to.n = line'[j].to.n
      PROVE  i = j
  <2>1. i + 1 = j + 1
    BY <1>1, <1>2, <1>3
  <2> QED
    BY <1>2, <2>1
<1>4. ASSUME NEW i \in DOMAIN line' PROVE line'[i].to.n # line[1].to.n
  <2>1. i + 1 # 1
    BY <1>2
  <2> QED
    BY <1>1, <1>2, <2>1
<1>5. Received # Silence => Received = line[1]
  BY <1>2 DEF Received
<1> QED
  BY <1>1, <1>2, <1>3, <1>4, <1>5 DEF Taken

LEMMA NothingTaken ==
  ASSUME SessionsInv, line' = line
  PROVE  Taken(Silence)
BY DEF SessionsInv, LineInv, Taken

LEMMA SilenceExpected ==
  ASSUME NEW k \in Kinds
  PROVE  Silence.flag # ExpectedFlag(k)
BY FlagsDiffer DEF Silence

LEMMA JudgeKeeps ==
  ASSUME SessionsInv, waiting, NEW a, Judges(a), Taken(a)
  PROVE  SessionsInv'
<1>1. Outcome(a) /\ Success(a) /\ Failure(a) /\ Logged(a)
  BY JudgesMeans DEF SessionsInv
<1>2. /\ UNCHANGED <<asked, key, n, runs, inbox, on, done, late>>
      /\ cmd' = "none" /\ waiting' = FALSE
  BY <1>1 DEF Outcome
<1>3. /\ Sent' = Sent /\ Given' = Given /\ Entries' = Entries
      /\ \A b : Truthful(b)' <=> Truthful(b)
  BY <1>2 DEF Sent, Given, Entries, Truthful
<1>4. asked \in Sent /\ asked.kind \in Kinds /\ n \in Nat
  BY DEF SessionsInv, AskInv, CountInv, Sent
<1>5. CountInv'
  BY <1>2 DEF SessionsInv, CountInv
<1>6. AskInv'
  <2>1. /\ exit' \in {NotExited, 0, 1, 2, 5}
        /\ accepted' \in Given \cup {Silence} /\ why' \in Given \cup {Silence}
        /\ writeErrors' \in Nat /\ lateErrors' \in Nat
    BY <1>1 DEF Outcome, Taken
  <2>2. on \in BOOLEAN /\ key \in Keys /\ late \in Nat /\ asked.n = n
    BY DEF SessionsInv, AskInv
  <2> QED
    BY <1>2, <1>3, <1>4, <2>1, <2>2 DEF AskInv
<1>7. DeviceInv'
  BY <1>2, <1>3 DEF SessionsInv, DeviceInv
<1>8. LineInv'
  BY <1>2, <1>3 DEF SessionsInv, LineInv, Taken
<1>9. LogInv'
  <2>0. /\ logs \in Seq(Entries)
        /\ \A i \in DOMAIN logs : logs[i].answer.flag = "DATA" /\ logs[i].answer.to.n \in done
        /\ \A i, j \in DOMAIN logs : logs[i].answer.to.n = logs[j].answer.to.n => i = j
        /\ \A i \in DOMAIN logs, j \in DOMAIN line' : logs[i].answer.to.n # line'[j].to.n
    BY DEF SessionsInv, LogInv, Taken
  <2>1. CASE UNCHANGED logs
    BY <1>2, <1>3, <2>0, <2>1 DEF LogInv
  <2>2. CASE /\ asked.kind = "bootlog" /\ a.flag = "DATA"
             /\ \E whole \in BOOLEAN : logs' = Append(logs, Entry(a, whole))
    <3>1. PICK whole \in BOOLEAN : logs' = Append(logs, Entry(a, whole))
      BY <2>2
    <3>2. a # Silence
      BY <2>2 DEF Silence
    <3>3. "bootlog" \in Kinds /\ ExpectedFlag("bootlog") = "DATA"
      BY DEF Kinds, ExpectedFlag
    <3>4. a \in Given /\ a.to.n \in done
      BY <2>2, <3>2, <3>3, TruthfulMeans DEF Taken
    <3>5. cmd = "bootlog"
      <4>1. ~JudgesIdentity
        BY DEF Judges
      <4> QED
        BY <2>2, <4>1 DEF SessionsInv, AskInv
    <3>6. key \in Keys \ {"none"}
      BY <2>2, <3>5 DEF SessionsInv, AskInv
    <3>7. Entry(a, whole) \in Entries /\ Entry(a, whole).answer = a
      BY <3>4, <3>6 DEF Entry, Entries
    <3>8. /\ logs' \in Seq(Entries)
          /\ \A i \in DOMAIN logs' :
               \/ i \in DOMAIN logs /\ logs'[i] = logs[i]
               \/ i = Len(logs) + 1 /\ logs'[i] = Entry(a, whole)
      BY <2>0, <3>1, <3>7, AppendElements
    <3>9. /\ \A i \in DOMAIN logs : logs[i].answer.to.n # a.to.n
          /\ \A i \in DOMAIN line' : line'[i].to.n # a.to.n
      BY <3>2 DEF Taken
    <3>10. \A i \in DOMAIN logs' : logs'[i].answer.flag = "DATA" /\ logs'[i].answer.to.n \in done
      BY <2>0, <2>2, <3>4, <3>7, <3>8
    <3>11. ASSUME NEW i \in DOMAIN logs', NEW j \in DOMAIN logs',
                  logs'[i].answer.to.n = logs'[j].answer.to.n
           PROVE  i = j
      BY <2>0, <3>7, <3>8, <3>9, <3>11
    <3>12. \A i \in DOMAIN logs', j \in DOMAIN line' : logs'[i].answer.to.n # line'[j].to.n
      BY <2>0, <3>7, <3>8, <3>9
    <3> QED
      BY <1>2, <1>3, <3>8, <3>10, <3>11, <3>12 DEF LogInv
  <2> QED
    BY <1>1, <2>1, <2>2 DEF Logged
<1>10. LastInv'
  <2> SUFFICES ASSUME exit' = 0, asked.kind = "bootlog", lateErrors' = 0
               PROVE  logs' # << >> /\ Last(logs') = Entry(accepted, TRUE)'
    BY <1>2 DEF LastInv
  <2>1. logs' = Append(logs, Entry(a, TRUE)) /\ accepted' = a
    BY <1>1 DEF Logged, Outcome
  <2>2. Entry(accepted, TRUE)' = Entry(a, TRUE)
    BY <1>2, <2>1 DEF Entry
  <2>3. PICK e : e = Entry(a, TRUE)
    OBVIOUS
  <2>4. logs \in Seq(Entries \cup {e}) /\ e \in Entries \cup {e}
    BY SeqMonotonic DEF SessionsInv, LogInv
  <2>5. Append(logs, e) # << >> /\ Last(Append(logs, e)) = e
    BY <2>4, AppendElements
  <2> QED
    BY <2>1, <2>2, <2>3, <2>5
<1>11. OwnInv'
  <2> SUFFICES ASSUME late = 0, exit' > 0, why' # Silence
               PROVE  \A j \in DOMAIN inbox : inbox[j].n # asked.n
    BY <1>2 DEF OwnInv
  <2> QED
    BY <1>1 DEF Outcome, Taken
<1>12. OutcomeIsTheDevices'
  <2>0. SuccessIsServed'
    <3> SUFFICES ASSUME exit' = 0, accepted' # Silence
                 PROVE  /\ accepted'.to.n \in done
                        /\ ExpectedFlag(accepted'.to.kind) = ExpectedFlag(asked.kind)
      BY <1>2 DEF SuccessIsServed
    <3>1. accepted' = a /\ a # Silence
      BY <1>1 DEF Outcome
    <3>2. a.flag = ExpectedFlag(asked.kind)
      BY <1>1, <3>1 DEF Success
    <3>3. a \in Given /\ Truthful(a)
      BY <3>1 DEF Taken
    <3> QED
      BY <1>4, <3>1, <3>2, <3>3, FlagsDiffer DEF Truthful, TruthfulIf, Given, Sent
  <2> SUFFICES ASSUME late = 0 PROVE OutcomeIsTheDevices'
    BY <1>2, <2>0 DEF OutcomeIsTheDevices
  <2>1. a # Silence => /\ a \in Given /\ Truthful(a) /\ a.to = asked
                       /\ a.flag = ExpectedFlag(asked.kind) => asked.n \in done
                       /\ a.flag # ExpectedFlag(asked.kind) => asked.n \notin done
    BY <1>4, TruthfulMeans DEF Taken
  <2>2. ASSUME exit' = 0
        PROVE  \/ accepted' = Silence /\ asked.kind \in {"off", "firmware", "timestamp"}
               \/ accepted'.to = asked /\ asked.n \in done
    <3>1. accepted' = a
      BY <1>1, <2>2 DEF Outcome
    <3>2. CASE a = Silence
      BY <1>1, <1>4, <2>2, <3>1, <3>2, SilenceExpected DEF Success
    <3>3. CASE a # Silence
      BY <1>1, <2>1, <2>2, <3>1, <3>3 DEF Success, Silence
    <3> QED
      BY <3>2, <3>3
  <2>3. ASSUME exit' > 0, why' # Silence
        PROVE  /\ why'.to = asked
               /\ \/ asked.n \notin done
                  \/ asked.kind = "status" /\ why'.body # "good"
                  \/ asked.kind = "bootlog" /\ writeErrors' > 0
    <3>1. why' = a
      BY <1>1 DEF Outcome
    <3> QED
      BY <1>1, <2>1, <2>3, <3>1 DEF Failure
  <2> QED
    BY <1>2, <2>0, <2>2, <2>3 DEF OutcomeIsTheDevices
<1> QED
  BY <1>5, <1>6, <1>7, <1>8, <1>9, <1>10, <1>11, <1>12 DEF SessionsInv

(* Without the port for the log, a bootlog run ends without a word. *)
LEMMA UnopenedKeeps ==
  ASSUME SessionsInv, cmd # "none", EndsWith(Silence, 1), waiting' = FALSE, key' \in Keys,
         UNCHANGED <<asked, n, inbox, line, logs, on, done, late, runs, writeErrors, lateErrors>>
  PROVE  SessionsInv'
<1>1. cmd' = "none" /\ exit' = 1 /\ why' = Silence /\ accepted' = Silence
  BY DEF EndsWith, Ends
<1>2. /\ Sent' = Sent /\ Given' = Given /\ Entries' = Entries
      /\ \A b : Truthful(b)' <=> Truthful(b)
  BY DEF Sent, Given, Entries, Truthful
<1>3. CountInv'
  BY <1>1 DEF SessionsInv, CountInv
<1>4. AskInv'
  BY <1>1, <1>2 DEF SessionsInv, AskInv
<1>5. DeviceInv' /\ LineInv' /\ LogInv'
  BY <1>2 DEF SessionsInv, DeviceInv, LineInv, LogInv
<1>6. LastInv' /\ OwnInv' /\ OutcomeIsTheDevices'
  BY <1>1 DEF LastInv, OwnInv, OutcomeIsTheDevices, SuccessIsServed
<1> QED
  BY <1>3, <1>4, <1>5, <1>6 DEF SessionsInv

LEMMA CannotOpenKeeps ==
  ASSUME SessionsInv, NEW c \in Kinds, CannotOpen(c)
  PROVE  SessionsInv'
<1>1. /\ UNCHANGED <<cmd, asked, waiting, logs, n, inbox, on, done, late, line,
                     writeErrors, lateErrors>>
      /\ cmd = "none" /\ runs < MaxRuns /\ runs' = runs + 1
      /\ accepted' = Silence /\ why' = Silence
  BY DEF CannotOpen, Begins, deviceVars, errorVars
<1>2. exit' \in {1, 2} /\ key' \in Keys
  BY DEF CannotOpen, Keys
<1>3. /\ Sent' = Sent /\ Given' = Given /\ Entries' = Entries
      /\ \A b : Truthful(b)' <=> Truthful(b)
  BY <1>1 DEF Sent, Given, Entries, Truthful
<1>4. CountInv'
  <2>1. runs' \in 0 .. MaxRuns /\ n <= 2 * runs' /\ n \in Nat
    BY <1>1, SessionsParameters DEF SessionsInv, CountInv
  <2> QED
    BY <1>1, <2>1 DEF CountInv
<1>5. AskInv'
  BY <1>1, <1>2, <1>3 DEF SessionsInv, AskInv, Kinds
<1>6. DeviceInv' /\ LineInv' /\ LogInv'
  BY <1>1, <1>3 DEF SessionsInv, DeviceInv, LineInv, LogInv
<1>7. LastInv' /\ OwnInv' /\ OutcomeIsTheDevices'
  <2>1. exit' # 0
    BY <1>2
  <2>2. ~waiting'
    BY <1>1 DEF SessionsInv, AskInv
  <2> QED
    BY <1>1, <2>1, <2>2 DEF LastInv, OwnInv, OutcomeIsTheDevices, SuccessIsServed
<1> QED
  BY <1>4, <1>5, <1>6, <1>7 DEF SessionsInv

-----------------------------------------------------------------------------
(* The device. *)

(* A request leaves the inbox, is carried out or not, and may be answered. *)
DeviceTakes(carriedOut) ==
  /\ inbox # << >>
  /\ inbox' = Tail(inbox) \/ inbox' = << >>
  /\ done' = IF carriedOut THEN done \cup {Head(inbox).n} ELSE done
  /\ on' \in BOOLEAN
  /\ UNCHANGED <<cmd, asked, waiting, accepted, key, exit, why, logs, n, runs,
                 writeErrors, lateErrors>>
  /\ \/ UNCHANGED <<line, late>>
     \/ \E flag \in Flags, b \in {"good", "bare", "odd", "empty"} :
          /\ flag = IF carriedOut THEN ExpectedFlag(Head(inbox).kind)
                    ELSE ErrorFlag(Head(inbox).kind)
          /\ Replies(Head(inbox), flag, b)

LEMMA DeviceKeeps ==
  ASSUME SessionsInv, NEW carriedOut \in BOOLEAN, DeviceTakes(carriedOut)
  PROVE  SessionsInv'
<1> DEFINE r == Head(inbox)
<1>0. inbox # << >> /\ (inbox' = Tail(inbox) \/ inbox' = << >>)
  BY DEF DeviceTakes
<1>1. /\ UNCHANGED <<cmd, asked, waiting, accepted, key, exit, why, logs, n, runs,
                     writeErrors, lateErrors>>
  BY DEF DeviceTakes
<1>2. /\ Sent' = Sent /\ Given' = Given /\ Entries' = Entries
  BY <1>1 DEF Sent, Given, Entries
<1>3. /\ inbox \in Seq(Sent) /\ done \subseteq 1 .. n
      /\ \A i \in DOMAIN inbox : inbox[i].n \notin done
      /\ \A i, j \in DOMAIN inbox : inbox[i].n = inbox[j].n => i = j
  BY DEF SessionsInv, DeviceInv
<1>4. /\ r \in Sent /\ r = inbox[1] /\ 1 \in DOMAIN inbox
      /\ Tail(inbox) \in Seq(Sent)
      /\ \A i \in DOMAIN Tail(inbox) :
           i \in Nat /\ i # 0 /\ i + 1 \in DOMAIN inbox /\ Tail(inbox)[i] = inbox[i + 1]
  BY <1>0, <1>3, TailElements
<1>5. r.n \in 1 .. n /\ r.n \notin done /\ r.kind \in Kinds
  BY <1>3, <1>4 DEF Sent
<1> HIDE DEF r
<1>6. /\ inbox' \in Seq(Sent)
      /\ \A i \in DOMAIN inbox' : inbox'[i].n # r.n
      /\ \A i \in DOMAIN inbox' : \E j \in DOMAIN inbox : inbox'[i] = inbox[j]
      /\ \A i, j \in DOMAIN inbox' : inbox'[i].n = inbox'[j].n => i = j
  <2>1. CASE inbox' = Tail(inbox)
    <3>1. \A i \in DOMAIN inbox' : inbox'[i].n # r.n
      <4> TAKE i \in DOMAIN inbox'
      <4>1. i + 1 # 1
        BY <1>4, <2>1
      <4> QED
        BY <1>3, <1>4, <2>1, <4>1
    <3>2. ASSUME NEW i \in DOMAIN inbox', NEW j \in DOMAIN inbox', inbox'[i].n = inbox'[j].n
          PROVE  i = j
      <4>1. i + 1 = j + 1
        BY <1>3, <1>4, <2>1, <3>2
      <4> QED
        BY <1>4, <2>1, <4>1
    <3> QED
      BY <1>4, <2>1, <3>1, <3>2
  <2>2. CASE inbox' = << >>
    <3>1. DOMAIN inbox' = {}
      BY <2>2
    <3> QED
      BY <2>2, <3>1
  <2> QED
    BY <1>0, <2>1, <2>2
<1>7. done' = IF carriedOut THEN done \cup {r.n} ELSE done
  BY DEF DeviceTakes, r
<1>8. /\ done \subseteq done' /\ done' \subseteq 1 .. n
      /\ \A k : k # r.n => (k \in done' <=> k \in done)
      /\ carriedOut => r.n \in done'
      /\ ~carriedOut => r.n \notin done'
  BY <1>3, <1>5, <1>7
<1>9. /\ late' \in Nat
      /\ late' = 0 => late = 0
  <2>1. late \in Nat
    BY DEF SessionsInv, AskInv
  <2>2. late' = late \/ late' = late + (IF waiting /\ Head(inbox) # asked THEN 1 ELSE 0)
    BY DEF DeviceTakes, Replies
  <2>3. late' = late \/ late' = late + 0 \/ late' = late + 1
    BY <2>2
  <2> QED
    BY <2>1, <2>3
<1>10. CountInv'
  BY <1>1 DEF SessionsInv, CountInv
<1>11. AskInv'
  <2>1. on' \in BOOLEAN
    BY DEF DeviceTakes
  <2> QED
    BY <1>1, <1>2, <1>9, <2>1 DEF SessionsInv, AskInv
<1>12. DeviceInv'
  <2>1. \A i \in DOMAIN inbox' : inbox'[i].n \notin done'
    BY <1>3, <1>6, <1>8
  <2> QED
    BY <1>1, <1>2, <1>6, <1>8, <2>1 DEF DeviceInv
<1>13. /\ line \in Seq(Given)
       /\ \A i \in DOMAIN line : TruthfulIf(line[i], done') /\ line[i].to.n # r.n
       /\ \A i \in DOMAIN line, j \in DOMAIN inbox' : line[i].to.n # inbox'[j].n
       /\ \A i, j \in DOMAIN line : line[i].to.n = line[j].to.n => i = j
  <2>1. /\ line \in Seq(Given)
        /\ \A i \in DOMAIN line : Truthful(line[i])
        /\ \A i \in DOMAIN line, j \in DOMAIN inbox : line[i].to.n # inbox[j].n
        /\ \A i, j \in DOMAIN line : line[i].to.n = line[j].to.n => i = j
    BY DEF SessionsInv, LineInv
  <2>2. ASSUME NEW i \in DOMAIN line
        PROVE  line[i].to.n # r.n /\ TruthfulIf(line[i], done')
    <3>1. line[i].to.n # r.n /\ TruthfulIf(line[i], done)
      BY <1>4, <2>1 DEF Truthful
    <3>2. line[i].to.n \in done' <=> line[i].to.n \in done
      BY <1>8, <3>1
    <3> QED
      BY <3>1, <3>2 DEF TruthfulIf
  <2>3. \A i \in DOMAIN line, j \in DOMAIN inbox' : line[i].to.n # inbox'[j].n
    BY <1>6, <2>1
  <2> QED
    BY <2>1, <2>2, <2>3
<1>14. /\ logs \in Seq(Entries)
       /\ \A i \in DOMAIN logs : logs[i].answer.flag = "DATA" /\ logs[i].answer.to.n \in done'
       /\ \A i \in DOMAIN logs : logs[i].answer.to.n # r.n
       /\ \A i, j \in DOMAIN logs : logs[i].answer.to.n = logs[j].answer.to.n => i = j
       /\ \A i \in DOMAIN logs, j \in DOMAIN line : logs[i].answer.to.n # line[j].to.n
  BY <1>5, <1>8 DEF SessionsInv, LogInv
<1>15. LastInv'
  <2>1. Entry(accepted, TRUE)' = Entry(accepted, TRUE)
    BY <1>1 DEF Entry
  <2> QED
    BY <1>1, <2>1 DEF SessionsInv, LastInv
<1>16. OutcomeIsTheDevices'
  <2>0. SuccessIsServed'
    BY <1>1, <1>8 DEF SessionsInv, OutcomeIsTheDevices, SuccessIsServed
  <2> SUFFICES ASSUME late' = 0 PROVE OutcomeIsTheDevices'
    BY <2>0 DEF OutcomeIsTheDevices
  <2>1. late = 0
    BY <1>9
  <2>2. exit > 0 /\ why # Silence => asked.n # r.n
    BY <1>4, <2>1 DEF SessionsInv, OwnInv
  <2>3. exit > 0 /\ why # Silence =>
          /\ why.to = asked
          /\ \/ asked.n \notin done'
             \/ asked.kind = "status" /\ why.body # "good"
             \/ asked.kind = "bootlog" /\ writeErrors > 0
    BY <1>8, <2>1, <2>2 DEF SessionsInv, OutcomeIsTheDevices
  <2>4. exit = 0 =>
          \/ accepted = Silence /\ asked.kind \in {"off", "firmware", "timestamp"}
          \/ accepted.to = asked /\ asked.n \in done'
    BY <1>8, <2>1 DEF SessionsInv, OutcomeIsTheDevices
  <2> QED
    BY <1>1, <2>0, <2>3, <2>4 DEF OutcomeIsTheDevices
<1>17. late' = 0 /\ exit' > 0 /\ why' # Silence => \A j \in DOMAIN inbox' : inbox'[j].n # asked'.n
  BY <1>1, <1>6, <1>9 DEF SessionsInv, OwnInv
<1>18. CASE UNCHANGED <<line, late>>
  <2>1. LineInv' /\ LogInv'
    BY <1>1, <1>2, <1>13, <1>14, <1>18 DEF LineInv, LogInv, Truthful
  <2>2. OwnInv'
    BY <1>1, <1>17, <1>18 DEF SessionsInv, OwnInv
  <2> QED
    BY <1>10, <1>11, <1>12, <1>15, <1>16, <2>1, <2>2 DEF SessionsInv
<1>19. ASSUME NEW flag \in Flags, NEW b \in {"good", "bare", "odd", "empty"},
              flag = IF carriedOut THEN ExpectedFlag(r.kind) ELSE ErrorFlag(r.kind),
              Replies(r, flag, b)
       PROVE  SessionsInv'
  <2> DEFINE a == [to |-> r, flag |-> flag, body |-> b]
  <2>1. a \in Given /\ a.to = r /\ line' = Append(line, a)
    BY <1>4, <1>19 DEF Given, Replies
  <2>2. TruthfulIf(a, done')
    BY <1>8, <1>19 DEF TruthfulIf
  <2> HIDE DEF a
  <2>3. /\ line' \in Seq(Given)
        /\ \A i \in DOMAIN line' :
             \/ i \in DOMAIN line /\ line'[i] = line[i]
             \/ i = Len(line) + 1 /\ line'[i] = a
    BY <1>13, <2>1, AppendElements
  <2>4. LineInv'
    <3>1. \A i \in DOMAIN line' : TruthfulIf(line'[i], done')
      BY <1>13, <2>2, <2>3
    <3>2. \A i \in DOMAIN line', j \in DOMAIN inbox' : line'[i].to.n # inbox'[j].n
      BY <1>6, <1>13, <2>1, <2>3
    <3>3. ASSUME NEW i \in DOMAIN line', NEW j \in DOMAIN line', line'[i].to.n = line'[j].to.n
          PROVE  i = j
      BY <1>13, <2>1, <2>3, <3>3
    <3> QED
      BY <1>2, <2>3, <3>1, <3>2, <3>3 DEF LineInv, Truthful
  <2>5. LogInv'
    <3>1. \A i \in DOMAIN logs, j \in DOMAIN line' : logs[i].answer.to.n # line'[j].to.n
      BY <1>14, <2>1, <2>3
    <3> QED
      BY <1>1, <1>2, <1>14, <3>1 DEF LogInv
  <2>6. OwnInv'
    <3> SUFFICES ASSUME late' = 0, waiting PROVE \A i \in DOMAIN line' : line'[i].to = asked
      BY <1>1, <1>17 DEF OwnInv
    <3>1. late \in Nat /\ late = 0
      BY <1>9 DEF SessionsInv, AskInv
    <3>2. r = asked
      BY <1>19, <3>1 DEF Replies
    <3> QED
      BY <2>1, <2>3, <3>1, <3>2 DEF SessionsInv, OwnInv
  <2> QED
    BY <1>10, <1>11, <1>12, <1>15, <1>16, <2>4, <2>5, <2>6 DEF SessionsInv
<1> QED
  BY <1>18, <1>19 DEF DeviceTakes, r

-----------------------------------------------------------------------------
(* Every step, and what the invariant says of the properties. *)

LEMMA KeyChosen ==
  ASSUME NEW a, a = Silence \/ a.body \in {"good", "bare", "odd"}
  PROVE  KeySource(a) \in Keys \ {"none"}
<1>1. "id_get" \in Kinds /\ ExpectedFlag("id_get") = "ID_DATA"
  BY DEF Kinds, ExpectedFlag
<1>2. a = Silence => Classify(a.flag, "ID_DATA") # "Expected"
  BY <1>1, SilenceExpected, ClassifyExpects
<1> QED
  BY <1>2 DEF KeySource, Keys

LEMMA IdentityKeeps ==
  ASSUME SessionsInv, waiting, JudgesIdentity, NEW a,
         a = Silence \/ a.body \in {"good", "bare", "odd"}, IdentityEnds(a)
  PROVE  SessionsInv'
<1>1. /\ key' = KeySource(a) /\ UNCHANGED <<logs, on, done, late, runs, writeErrors, lateErrors>>
      /\ cmd = "bootlog" /\ asked.kind = "id_get" /\ exit = NotExited
  BY DEF IdentityEnds, JudgesIdentity, errorVars, SessionsInv, AskInv, Kinds
<1>2. key' \in Keys /\ key' # "none"
  BY <1>1, KeyChosen
<1>3. runs' \in 0 .. MaxRuns /\ n + 1 <= 2 * runs'
  BY <1>1 DEF SessionsInv, CountInv
<1>4. "bootlog" \in Kinds
  BY DEF Kinds
<1>5. CASE OpensAndSends("bootlog") /\ UNCHANGED <<cmd, exit, why, accepted>>
  <2>1. RunsOn("bootlog")
    <3>1. UNCHANGED <<logs, on, done, late, writeErrors, lateErrors>>
      BY <1>1
    <3>2. runs' \in 0 .. MaxRuns /\ n + 1 <= 2 * runs'
      BY <1>3
    <3>3. exit' = NotExited
      BY <1>1, <1>5
    <3>4. accepted' = accepted /\ why' = why
      BY <1>5
    <3> QED
      BY <3>1, <3>2, <3>3, <3>4 DEF RunsOn
  <2>2. cmd' = "bootlog"
    BY <1>1, <1>5
  <2>3. Commands("bootlog")
    BY <1>2, <1>4, <2>2 DEF Commands
  <2> QED
    BY <1>4, <1>5, <2>1, <2>3, SendKeeps
<1>6. CASE /\ EndsWith(Silence, 1) /\ waiting' = FALSE
           /\ UNCHANGED <<asked, n, inbox, line, lost>>
  BY <1>1, <1>2, <1>6, UnopenedKeeps
<1> QED
  BY <1>5, <1>6 DEF IdentityEnds

LEMMA SessionsStep == SessionsInv /\ [Next]_bvars => SessionsInv'
<1> SUFFICES ASSUME SessionsInv, [Next]_bvars PROVE SessionsInv'
  OBVIOUS
<1>1. ASSUME Begins
      PROVE  /\ runs' = runs + 1 /\ runs' \in 0 .. MaxRuns /\ n + 1 <= 2 * runs' - 1
             /\ n + 1 <= 2 * runs' /\ accepted' = Silence /\ why' = Silence
  BY <1>1, SessionsParameters DEF Begins, SessionsInv, CountInv
<1>2. ASSUME NEW c \in Kinds, Starts(c) PROVE SessionsInv'
  <2>1. /\ Begins /\ cmd' = c /\ exit' = NotExited /\ key' = "none"
        /\ OpensAndSends(FirstKind(c))
        /\ UNCHANGED <<logs, on, done, late, writeErrors, lateErrors>>
    BY <1>2 DEF Starts, errorVars
  <2>2. /\ FirstKind(c) \in Kinds /\ FirstKind(c) = (IF c = "bootlog" THEN "id_get" ELSE c)
        /\ "none" \in Keys /\ c \in Kinds
    BY <1>2 DEF FirstKind, Kinds, Keys
  <2>3. RunsOn(FirstKind(c))
    BY <1>1, <2>1 DEF RunsOn
  <2>4. cmd' = c /\ key' = "none"
    BY <2>1
  <2>5. c = "bootlog" => FirstKind(c) = "id_get"
    BY <2>2
  <2>6. c # "bootlog" => FirstKind(c) = c
    BY <2>2
  <2>7. Commands(FirstKind(c))
    BY <2>2, <2>4, <2>5, <2>6 DEF Commands
  <2> QED
    BY <2>1, <2>2, <2>3, <2>7, SendKeeps
<1>3. ASSUME NEW c \in Kinds, CannotOpen(c) PROVE SessionsInv'
  BY <1>3, CannotOpenKeeps
<1>4. CASE StartsUnidentified
  <2>1. /\ Begins /\ cmd' = "bootlog" /\ exit' = NotExited /\ key' = "port_timestamp"
        /\ OpensAndSends("bootlog")
        /\ UNCHANGED <<logs, on, done, late, writeErrors, lateErrors>>
    BY <1>4 DEF StartsUnidentified, errorVars
  <2>2. "bootlog" \in Kinds /\ "port_timestamp" \in Keys
    BY DEF Kinds, Keys
  <2>3. RunsOn("bootlog")
    <3>1. /\ UNCHANGED <<logs, on, done, late, writeErrors, lateErrors>>
          /\ exit' = NotExited
      BY <2>1
    <3> QED
      BY <1>1, <2>1, <3>1 DEF RunsOn
  <2>4. Commands("bootlog")
    <3>1. cmd' = "bootlog" /\ key' = "port_timestamp"
      BY <2>1
    <3> QED
      BY <2>2, <3>1 DEF Commands
  <2> QED
    BY <2>1, <2>2, <2>3, <2>4, SendKeeps
<1>5. CASE Receives
  <2>1. waiting /\ line # << >>
    BY <1>5 DEF Receives
  <2>2. CASE Judges(Received) /\ line' = Tail(line)
    BY <2>1, <2>2, HeadTaken, JudgeKeeps
  <2>3. CASE JudgesIdentity /\ IdentityEnds(Received)
    <3>1. Head(line) \in Given
      BY <2>1, TailElements DEF SessionsInv, LineInv
    <3>2. Received = Silence \/ Received.body \in {"good", "bare", "odd"}
      BY <3>1 DEF Received, Given
    <3> QED
      BY <2>1, <2>3, <3>2, IdentityKeeps
  <2> QED
    BY <1>5, <2>2, <2>3 DEF Receives
<1>6. CASE TimesOut
  <2>1. waiting
    BY <1>6 DEF TimesOut
  <2>2. CASE Judges(Silence) /\ UNCHANGED line
    BY <2>1, <2>2, NothingTaken, JudgeKeeps
  <2>3. CASE JudgesIdentity /\ IdentityEnds(Silence)
    BY <2>1, <2>3, IdentityKeeps
  <2> QED
    BY <1>6, <2>2, <2>3 DEF TimesOut
<1>7. Head(inbox) \in Sent \/ inbox = << >>
  BY TailElements DEF SessionsInv, DeviceInv
<1>8. CASE DeviceCarriesOut
  <2>1. /\ inbox # << >> /\ (inbox' = Tail(inbox) \/ inbox' = << >>)
        /\ done' = done \cup {Head(inbox).n}
        /\ UNCHANGED <<line, late>> \/ \E b \in Bodies(Head(inbox).kind) :
             Replies(Head(inbox), ExpectedFlag(Head(inbox).kind), b)
        /\ UNCHANGED <<hostVars, errorVars>>
    BY <1>8 DEF DeviceCarriesOut
  <2>2. on' \in BOOLEAN
    BY <1>8 DEF DeviceCarriesOut
  <2>3. /\ ExpectedFlag(Head(inbox).kind) \in Flags
        /\ Bodies(Head(inbox).kind) \subseteq {"good", "bare", "odd", "empty"}
    BY <1>7, <2>1 DEF Flags, Bodies, Sent
  <2>4. DeviceTakes(TRUE)
    BY <2>1, <2>2, <2>3 DEF DeviceTakes, hostVars, errorVars
  <2> QED
    BY <2>4, DeviceKeeps
<1>9. CASE DeviceRefuses
  <2>1. /\ inbox # << >> /\ inbox' = Tail(inbox) /\ UNCHANGED <<hostVars, on, done, errorVars>>
        /\ \E b \in {"good", "empty"} :
             Replies(Head(inbox), ErrorFlag(Head(inbox).kind), b)
    BY <1>9 DEF DeviceRefuses
  <2>2. on' \in BOOLEAN
    BY <2>1 DEF SessionsInv, AskInv
  <2>3. ErrorFlag(Head(inbox).kind) \in Flags
    BY <1>7, <2>1 DEF Flags, Sent
  <2>4. DeviceTakes(FALSE)
    BY <2>1, <2>2, <2>3 DEF DeviceTakes, hostVars, errorVars
  <2> QED
    BY <2>4, DeviceKeeps
<1>10. CASE DevicePowersUp
  <2>1. /\ UNCHANGED <<hostVars, inbox, done, late, line, lost, errorVars>> /\ on' = TRUE
    BY <1>10 DEF DevicePowersUp
  <2> QED
    BY <2>1 DEF hostVars, errorVars, SessionsInv, CountInv, AskInv, DeviceInv, LineInv,
      LogInv, LastInv, OwnInv, OutcomeIsTheDevices, SuccessIsServed, Sent, Given, Entries, Truthful, Entry
<1>11. CASE UNCHANGED bvars
  BY <1>11 DEF bvars, hostVars, deviceVars, errorVars, SessionsInv, CountInv, AskInv,
    DeviceInv, LineInv, LogInv, LastInv, OwnInv, OutcomeIsTheDevices, SuccessIsServed, Sent, Given, Entries,
    Truthful, Entry
<1> QED
  BY <1>2, <1>3, <1>4, <1>5, <1>6, <1>8, <1>9, <1>10, <1>11 DEF Next

LEMMA SessionsInvariant == Spec => []SessionsInv
<1>1. Init => SessionsInv
  <2> SUFFICES ASSUME Init PROVE SessionsInv
    OBVIOUS
  <2> USE DEF Init
  <2>1. DOMAIN << >> = {}
    OBVIOUS
  <2>2. CountInv
    BY SessionsParameters DEF CountInv
  <2>3. AskInv
    <3>1. on \in BOOLEAN /\ waiting \in BOOLEAN /\ (waiting <=> cmd # "none")
      OBVIOUS
    <3> QED
      BY <3>1 DEF AskInv, Keys
  <2>4. DeviceInv /\ LineInv /\ LogInv
    BY <2>1 DEF DeviceInv, LineInv, LogInv
  <2>5. LastInv /\ OwnInv /\ OutcomeIsTheDevices
    BY DEF LastInv, OwnInv, OutcomeIsTheDevices, SuccessIsServed, NotExited
  <2> QED
    BY <2>2, <2>3, <2>4, <2>5 DEF SessionsInv
<1> QED
  BY <1>1, SessionsStep, PTL DEF Spec

(* The state of client, device, line and log keeps its type, and a log is  *)
(* appended only under a key that was chosen.                              *)
THEOREM SessionsTypeCorrect == Spec => []SessionsTypeOK
<1>1. ASSUME SessionsInv PROVE SessionsTypeOK
  <2> USE <1>1 DEF SessionsInv
  <2>1. /\ n \in Nat /\ n <= 2 * MaxRuns /\ 1 .. n \subseteq 0 .. 2 * MaxRuns
        /\ 1 .. n \subseteq 1 .. 2 * MaxRuns /\ 0 \in 0 .. 2 * MaxRuns
    BY SessionsParameters DEF CountInv
  <2>2. Sent \subseteq Requests /\ NoRequest \in Requests
    BY <2>1 DEF Sent, Requests, NoRequest, Request
  <2>3. Given \subseteq Answers /\ Silence \in Answers
    BY <2>2 DEF Given, Flags, Answers, Silence
  <2>4. Entries \subseteq [answer : Answers, key : Keys \ {"none"}, whole : BOOLEAN]
    BY <2>3 DEF Entries
  <2>5. /\ inbox \in Seq(Requests) /\ line \in Seq(Answers)
        /\ logs \in Seq([answer : Answers, key : Keys \ {"none"}, whole : BOOLEAN])
    BY <2>2, <2>3, <2>4, SeqMonotonic DEF DeviceInv, LineInv, LogInv
  <2>6. /\ asked \in Requests /\ accepted \in Answers /\ why \in Answers
        /\ done \subseteq 1 .. 2 * MaxRuns /\ n \in 0 .. 2 * MaxRuns /\ runs \in 0 .. MaxRuns
    BY <2>1, <2>2, <2>3 DEF AskInv, DeviceInv, CountInv
  <2>7. waiting = (cmd # "none") /\ on \in BOOLEAN
    BY DEF AskInv
  <2> QED
    BY <2>5, <2>6, <2>7 DEF SessionsTypeOK, AskInv
<1> QED
  BY <1>1, SessionsInvariant, PTL

(* While the device answers in time, a run that succeeds took the answer to *)
(* its own request, which the device carried out, and a run that reports   *)
(* what it received reports the answer to its own request.                 *)
THEOREM OutcomesAreTheDevices == Spec => []OutcomeIsTheDevices
<1>1. SessionsInv => OutcomeIsTheDevices
  BY DEF SessionsInv
<1> QED
  BY <1>1, SessionsInvariant, PTL

(* Whatever comes late, bootlog appends data of an exchange the device     *)
(* carried out, no answer twice, and leaves its answer at the end.         *)
THEOREM LogsHoldData == Spec => []LogsAreData
<1>1. ASSUME SessionsInv PROVE LogsAreData
  <2>1. \A i, j \in DOMAIN logs : logs[i].answer = logs[j].answer => i = j
    BY <1>1 DEF SessionsInv, LogInv
  <2> QED
    BY <1>1, <2>1 DEF SessionsInv, LogInv, LastInv, LogsAreData
<1> QED
  BY <1>1, SessionsInvariant, PTL

-----------------------------------------------------------------------------
(* Sessions implements AnswerLog. *)

(* The log as AnswerLog sees it grows as the log does. *)
LEMMA NumbersAppend ==
  ASSUME NEW S, NEW s \in Seq(S), NEW e \in S
  PROVE  [i \in DOMAIN Append(s, e) |-> Append(s, e)[i].answer.to.n] =
           Append([i \in DOMAIN s |-> s[i].answer.to.n], e.answer.to.n)
<1> DEFINE t == Append(s, e)
           u == [i \in DOMAIN s |-> s[i].answer.to.n]
           v == [i \in DOMAIN t |-> t[i].answer.to.n]
           N == {x.answer.to.n : x \in S}
<1>1. /\ t \in Seq(S) /\ Len(t) = Len(s) + 1 /\ t[Len(s) + 1] = e
      /\ \A i \in 1 .. Len(s) : t[i] = s[i]
      /\ DOMAIN t = 1 .. Len(s) + 1 /\ DOMAIN s = 1 .. Len(s) /\ Len(s) \in Nat
  BY AppendProperties, LenProperties
<1>2. \A i \in DOMAIN s : s[i] \in S
  BY <1>1, ElementOfSeq
<1>3. u \in Seq(N) /\ Len(u) = Len(s) /\ \A i \in DOMAIN s : u[i] = s[i].answer.to.n
  <2>1. u \in [1 .. Len(s) -> N]
    BY <1>1, <1>2
  <2> QED  BY <1>1, <2>1, SeqDef, LenProperties
<1>4. e.answer.to.n \in N
  OBVIOUS
<1> HIDE DEF t, u, N
<1>5. /\ Append(u, e.answer.to.n) \in Seq(N) /\ Len(Append(u, e.answer.to.n)) = Len(s) + 1
      /\ Append(u, e.answer.to.n)[Len(s) + 1] = e.answer.to.n
      /\ \A i \in 1 .. Len(s) : Append(u, e.answer.to.n)[i] = s[i].answer.to.n
  BY <1>1, <1>3, <1>4, AppendProperties
<1>6. /\ DOMAIN v = 1 .. Len(s) + 1
      /\ \A i \in 1 .. Len(s) : v[i] = s[i].answer.to.n
      /\ v[Len(s) + 1] = e.answer.to.n
  BY <1>1
<1>7. DOMAIN Append(u, e.answer.to.n) = 1 .. Len(s) + 1
  BY <1>5, LenProperties
<1>8. \A i \in 1 .. Len(s) + 1 : v[i] = Append(u, e.answer.to.n)[i]
  <2>1. 1 .. Len(s) + 1 = (1 .. Len(s)) \cup {Len(s) + 1}
    BY <1>1
  <2> QED  BY <1>5, <1>6, <2>1
<1>9. Append(u, e.answer.to.n) = [i \in 1 .. Len(s) + 1 |-> Append(u, e.answer.to.n)[i]]
  BY <1>5, <1>7
<1> QED  BY <1>1, <1>6, <1>8, <1>9 DEF t, u

(* What a step does to the log and to what was carried out. *)
LEMMA LogAndDone ==
  ASSUME SessionsInv, [Next]_bvars
  PROVE  \/ UNCHANGED <<logs, done>>
         \/ logs' = logs /\ inbox # << >> /\ done' = done \cup {Head(inbox).n}
         \/ done' = done /\ \E e : logs' = Append(logs, e)
<1>1. ASSUME NEW a, waiting, Judges(a)
      PROVE  done' = done /\ (logs' = logs \/ \E e : logs' = Append(logs, e))
  BY <1>1, JudgesMeans DEF SessionsInv, Outcome, Logged
<1>2. ASSUME NEW a, IdentityEnds(a) PROVE UNCHANGED <<logs, done>>
  BY <1>2 DEF IdentityEnds
<1>3. CASE Receives \/ TimesOut
  BY <1>1, <1>2, <1>3 DEF Receives, TimesOut
<1>4. CASE DeviceCarriesOut
  BY <1>4 DEF DeviceCarriesOut, hostVars
<1>5. CASE \/ \E c \in Kinds : Starts(c) \/ CannotOpen(c)
           \/ StartsUnidentified \/ DeviceRefuses \/ DevicePowersUp \/ UNCHANGED bvars
  BY <1>5 DEF Starts, CannotOpen, StartsUnidentified, DeviceRefuses, DevicePowersUp,
    bvars, hostVars, deviceVars
<1> QED  BY <1>3, <1>4, <1>5 DEF Next

LEMMA StepImplementsLog == SessionsInv /\ SessionsInv' /\ [Next]_bvars => [Kept!Next]_(Kept!vars)
<1> SUFFICES ASSUME SessionsInv, SessionsInv', [Next]_bvars PROVE [Kept!Next]_(Kept!vars)
  OBVIOUS
<1> USE DEF Kept!Next, Kept!vars
<1>1. CASE UNCHANGED <<logs, done>>
  BY <1>1
<1>2. CASE logs' = logs /\ inbox # << >> /\ done' = done \cup {Head(inbox).n}
  <2>1. Head(inbox) \in Sent /\ Head(inbox).n \notin done
    BY <1>2, TailElements DEF SessionsInv, DeviceInv
  <2>2. Head(inbox).n \in 1 .. 2 * MaxRuns
    BY <2>1, SessionsParameters DEF SessionsInv, CountInv, Sent
  <2>3. Kept!Serve
    BY <1>2, <2>1, <2>2 DEF Kept!Serve
  <2> QED  BY <2>3
<1>3. ASSUME NEW e, done' = done, logs' = Append(logs, e)
      PROVE  [Kept!Next]_(Kept!vars)
  <2>1. logs \in Seq(Entries) /\ logs' \in Seq(Entries')
    BY DEF SessionsInv, LogInv
  <2>2. PICK S : logs \in Seq(S) /\ e \in S
    <3>1. logs \in Seq(Entries \cup {e})
      BY <2>1, SeqMonotonic
    <3> QED  BY <3>1
  <2>3. /\ Len(logs) + 1 \in DOMAIN logs' /\ logs'[Len(logs) + 1] = e
        /\ \A i \in DOMAIN logs : i \in DOMAIN logs' /\ logs'[i] = logs[i] /\ i # Len(logs) + 1
    BY <1>3, <2>2, AppendProperties, LenProperties
  <2>4. e.answer.to.n \in done
    BY <1>3, <2>3 DEF SessionsInv, LogInv
  <2>5. \A i \in DOMAIN logs : logs[i].answer.to.n # e.answer.to.n
    BY <2>3 DEF SessionsInv, LogInv
  <2>6. [i \in DOMAIN logs' |-> logs'[i].answer.to.n] =
          Append([i \in DOMAIN logs |-> logs[i].answer.to.n], e.answer.to.n)
    BY <1>3, <2>2, NumbersAppend
  <2>7. Kept!Keep
    BY <1>3, <2>4, <2>5, <2>6 DEF Kept!Keep
  <2> QED  BY <2>7
<1> QED  BY <1>1, <1>2, <1>3, LogAndDone

(* For any number of runs, late answers, lost requests and failed writes:  *)
(* nothing is carried out twice, and the log is only ever extended at its  *)
(* end, by an answer that is not in it yet.                                *)
THEOREM SessionsImplementLog == Spec => ImplementsLog
<1>1. Init => Kept!Init
  BY DEF Init, Kept!Init
<1>2. SessionsInv /\ SessionsInv' /\ [Next]_bvars => [Kept!Next]_(Kept!vars)
  BY StepImplementsLog
<1> QED
  BY <1>1, <1>2, SessionsInvariant, PTL DEF Spec, ImplementsLog, Kept!Spec

=============================================================================

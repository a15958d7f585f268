-------------------------- MODULE ReportingProofs --------------------------
(***************************************************************************)
(* What holds of the reports for any number of them, any width of a word,  *)
(* any surge time and any battery voltage.                                 *)
(***************************************************************************)
EXTENDS Reporting, TLAPS

-----------------------------------------------------------------------------
(* Arithmetic of a value kept as two words.                                *)

LEMMA TwoWords ==
  ASSUME NEW x \in Nat
  PROVE  /\ x \div Word \in Nat
         /\ x % Word \in 0..(Word - 1)
         /\ x = (x \div Word) * Word + (x % Word)
BY ClockAssumption

(* The low word alone is the value as long as it fits. *)
LEMMA LowWord ==
  ASSUME NEW x \in Nat
  PROVE  /\ x % Word <= x
         /\ x < Word => x % Word = x
<1>1. (x \div Word) * Word >= 0
  <2>1. x \div Word \in Nat /\ Word \in Nat
    BY TwoWords, ClockAssumption
  <2>2. \A a, b \in Nat : a * b >= 0
    OBVIOUS
  <2> QED BY <2>1, <2>2
<1>2. x % Word <= x
  BY <1>1, TwoWords, ClockAssumption
<1>3. ASSUME x < Word PROVE x % Word = x
  BY <1>3, ClockAssumption
<1> QED BY <1>2, <1>3

(* A new high word over an old low word is no earlier than the old value.  *)
LEMMA TornIsNotEarlier ==
  ASSUME NEW old \in Nat, NEW new \in Nat, old <= new
  PROVE  /\ (new \div Word) * Word + (old % Word) \in Nat
         /\ old <= (new \div Word) * Word + (old % Word)
<1> DEFINE p == old \div Word
           q == new \div Word
<1>1. /\ p \in Nat /\ q \in Nat /\ Word \in Nat /\ Word > 0
      /\ old % Word \in 0..(Word - 1) /\ new % Word \in 0..(Word - 1)
      /\ old = p * Word + (old % Word) /\ new = q * Word + (new % Word)
  BY TwoWords, ClockAssumption
<1> HIDE DEF p, q
<1>2. p <= q
  <2> SUFFICES ASSUME q + 1 <= p PROVE FALSE
    BY <1>1
  <2>1. \A a, b, w \in Nat : a <= b => a * w <= b * w
    OBVIOUS
  <2>2. (q + 1) * Word <= p * Word
    BY <1>1, <2>1
  <2>3. (q + 1) * Word = q * Word + Word
    BY <1>1
  <2>4. p * Word \in Nat /\ q * Word \in Nat
    BY <1>1
  <2> QED BY <1>1, <2>2, <2>3, <2>4
<1>3. p * Word <= q * Word
  <2>1. \A a, b, w \in Nat : a <= b => a * w <= b * w
    OBVIOUS
  <2> QED BY <1>1, <1>2, <2>1
<1>4. p * Word \in Nat /\ q * Word \in Nat
  BY <1>1
<1> QED BY <1>1, <1>3, <1>4 DEF q

-----------------------------------------------------------------------------
(* Types, component by component.                                          *)

(* The socket, the answer and the envelopes of any number of reports       *)
(* (hologram.c:70-185).                                                    *)
LEMMA HologramStep ==
  ASSUME HologramTypeOK, [Next]_vars
  PROVE  HologramTypeOK'
<1> USE HologramAssumption
    DEF HologramTypeOK, Error, hologram_vars, call_vars, handles, net_vars
<1>1. CASE ReportBegins
  BY <1>1 DEF ReportBegins, HologramSend, EnvelopeFails
<1>2. CASE Retries
  BY <1>2 DEF Retries, HologramSend, EnvelopeFails
<1>3. CASE Sends /\ (GetAddrInfo \/ OpenSocket \/ Connect \/ SetSockOpt)
  BY <1>3 DEF GetAddrInfo, OpenSocket, Connect, SetSockOpt, Fails
<1>4. CASE Sends /\ Send
  BY <1>4 DEF Send, Fails
<1>5. CASE Sends /\ (Recv \/ RecvFails \/ Cleanup)
  BY <1>5 DEF Recv, RecvFails, Cleanup
<1>6. CASE Server
  <2>1. PICK r \in Reports : ServerAnswers(r) \/ EnvelopeLost(r)
    BY <1>6 DEF Server
  <2>2. wire[r] - 1 \in Nat /\ wire' = [wire EXCEPT ![r] = @ - 1]
    BY <2>1 DEF ServerAnswers, EnvelopeLost
  <2>3. /\ taken' \in {taken, [taken EXCEPT ![r] = @ + 1]}
        /\ answer' \in {answer, "accepted", "rejected"}
        /\ UNCHANGED <<at, err, fd, res, timed, current>>
    BY <2>1 DEF ServerAnswers, EnvelopeLost
  <2> QED BY <2>2, <2>3
<1>7. CASE TimePasses \/ Jolt \/ Wakes \/ Skips \/ TooLarge \/ ReportEnds \/ Goes
  BY <1>7 DEF TimePasses, Jolt, Wakes, Skips, TooLarge, ReportEnds, Goes
<1>8. CASE UNCHANGED vars
  BY <1>8 DEF vars
<1> QED
  BY <1>1, <1>2, <1>3, <1>4, <1>5, <1>6, <1>7, <1>8
  DEF Next, Sends, SocketSendEnvelope

(* The uptime and the two words of the last jolt (motion.c:66-83).         *)
LEMMA ClockStep ==
  ASSUME ClockTypeOK, [Next]_vars
  PROVE  ClockTypeOK'
<1> USE ClockAssumption DEF ClockTypeOK, clock_vars, jolt_vars
<1>1. CASE TimePasses
  BY <1>1 DEF TimePasses, Tick
<1>2. CASE Jolt /\ JoltStoresHigh
  BY <1>2, TwoWords DEF JoltStoresHigh
<1>3. CASE Jolt /\ JoltStoresLow
  BY <1>3, TwoWords DEF JoltStoresLow
<1>4. CASE \/ Wakes \/ Skips \/ ReportBegins \/ TooLarge \/ Sends \/ Retries
           \/ ReportEnds \/ Goes \/ Server
  BY <1>4 DEF Wakes, Skips, ReportBegins, TooLarge, Sends, Retries,
     ReportEnds, Goes, Server
<1>5. CASE UNCHANGED vars
  BY <1>5 DEF vars
<1> QED BY <1>1, <1>2, <1>3, <1>4, <1>5 DEF Next, Jolt

(* What main keeps of a cycle and of a report. *)
Words == 0..(Word - 1)
Spans == 0..MaxUptime
Times == 1..MaxUptime

MainTypeOK ==
  /\ pc \in {"asleep", "fix", "sending", "check"}
  /\ wake_uptime_ms \in Words
  /\ woken_at \in Times
  /\ batt_mv \in Millivolts
  /\ awake_s \in Spans
  /\ retried \in BOOLEAN
  /\ success \in SUBSET Reports

(* The uptime at the wake is later than its low word, and earlier than now. *)
WakeInv ==
  /\ wake_uptime_ms = woken_at % Word
  /\ woken_at <= uptime
  /\ pc = "sending" => awake_s = uptime - wake_uptime_ms

(* A report that is sent is one of the numbered ones. *)
Numbered == pc = "sending" => current \in Reports

(* The ends of those sets, which the steps below leave unexpanded. *)
LEMMA Ends ==
  /\ 0 \in Spans /\ 0 \in Millivolts /\ 1 \in Times
  /\ power_read \subseteq Millivolts
  /\ \A x \in Nat : x % Word \in Words
  /\ ClockTypeOK => uptime \in Times
<1>1. \A x \in Nat : x % Word \in Words
  BY TwoWords DEF Words
<1>2. 0 \in Spans /\ 1 \in Times
  <2>1. MaxUptime \in Nat /\ MaxUptime >= 1
    BY ClockAssumption
  <2> QED BY <2>1 DEF Spans, Times
<1>3. 0 \in Millivolts /\ power_read \subseteq Millivolts
  <2>1. 0 \in Millivolts
    BY DEF Millivolts
  <2> QED BY <2>1, VoltageAssumption DEF power_read
<1>4. ClockTypeOK => uptime \in Times
  BY DEF ClockTypeOK, Times
<1> QED BY <1>1, <1>2, <1>3, <1>4

LEMMA AwakeSpan ==
  ASSUME MainTypeOK, ClockTypeOK, WakeInv
  PROVE  AwakeFor \in Spans
<1>1. woken_at \in Nat /\ uptime \in 1..MaxUptime /\ woken_at <= uptime
  BY ClockAssumption DEF MainTypeOK, ClockTypeOK, WakeInv, Times
<1>2. wake_uptime_ms \in Nat /\ wake_uptime_ms <= woken_at
  BY <1>1, LowWord, TwoWords, ClockAssumption DEF WakeInv
<1> QED BY <1>1, <1>2, ClockAssumption DEF AwakeFor, Spans

(* The cycle's own variables (main.c:195-206, 404-406). *)
LEMMA MainStep ==
  ASSUME MainTypeOK, ClockTypeOK, WakeInv, Numbered, [Next]_vars
  PROVE  MainTypeOK'
<1> USE DEF MainTypeOK, wake_vars, report_vars
<1>1. CASE TimePasses \/ Jolt \/ Skips \/ TooLarge \/ Sends \/ Server
  BY <1>1 DEF TimePasses, Jolt, Skips, TooLarge, Sends, Server
<1>2. CASE Wakes
  <2>1. uptime \in Times /\ uptime % Word \in Words
    BY Ends, ClockAssumption DEF ClockTypeOK
  <2> QED BY <1>2, <2>1 DEF Wakes
<1>3. CASE ReportBegins
  BY <1>3, AwakeSpan, Ends DEF ReportBegins
<1>4. CASE Retries
  BY <1>4 DEF Retries
<1>5. CASE ReportEnds
  BY <1>5, Ends DEF ReportEnds, Numbered
<1>6. CASE Goes
  BY <1>6 DEF Goes
<1>7. CASE UNCHANGED vars
  BY <1>7 DEF vars
<1> QED BY <1>1, <1>2, <1>3, <1>4, <1>5, <1>6, <1>7 DEF Next

LEMMA WakeStep ==
  ASSUME WakeInv, MainTypeOK, ClockTypeOK, [Next]_vars
  PROVE  WakeInv'
<1> USE DEF WakeInv, wake_vars, report_vars, clock_vars
<1>1. CASE TimePasses
  <2>1. woken_at \in Nat /\ uptime \in Nat
    BY ClockAssumption DEF MainTypeOK, ClockTypeOK, Times
  <2>2. /\ pc # "sending" /\ uptime' = uptime + 1
        /\ UNCHANGED <<pc, woken_at, wake_uptime_ms>>
    BY <1>1 DEF TimePasses, Tick
  <2> QED BY <2>1, <2>2
<1>2. CASE Jolt
  BY <1>2 DEF Jolt, JoltStoresHigh, JoltStoresLow
<1>3. CASE Wakes
  BY <1>3 DEF Wakes, ClockTypeOK
<1>4. CASE ReportBegins
  BY <1>4 DEF ReportBegins, AwakeFor
<1>5. CASE Skips \/ TooLarge \/ Sends \/ Retries \/ ReportEnds \/ Goes \/ Server
  BY <1>5 DEF Skips, TooLarge, Sends, Retries, ReportEnds, Goes, Server
<1>6. CASE UNCHANGED vars
  BY <1>6 DEF vars
<1> QED BY <1>1, <1>2, <1>3, <1>4, <1>5, <1>6 DEF Next

LEMMA NumberedStep ==
  ASSUME Numbered, HologramTypeOK, [Next]_vars
  PROVE  Numbered'
<1> USE HologramAssumption
    DEF Numbered, HologramTypeOK, Reports, hologram_vars, net_vars
<1>1. CASE ReportBegins
  BY <1>1 DEF ReportBegins
<1>2. CASE Sends
  BY <1>2 DEF Sends, SocketSendEnvelope, GetAddrInfo, OpenSocket, Connect,
     SetSockOpt, Send, Recv, RecvFails, Cleanup
<1>3. CASE Server
  BY <1>3 DEF Server, ServerAnswers, EnvelopeLost
<1>4. CASE Retries
  BY <1>4 DEF Retries
<1>5. CASE TimePasses \/ Jolt \/ Wakes \/ Skips \/ TooLarge \/ ReportEnds
  BY <1>5 DEF TimePasses, Jolt, Wakes, Skips, TooLarge, ReportEnds
<1>6. CASE Goes
  BY <1>6 DEF Goes
<1>7. CASE UNCHANGED vars
  BY <1>7 DEF vars
<1> QED BY <1>1, <1>2, <1>3, <1>4, <1>5, <1>6, <1>7 DEF Next

(* The part of the invariant that everything else rests on. *)
Base == HologramTypeOK /\ ClockTypeOK /\ MainTypeOK /\ WakeInv /\ Numbered

LEMMA BaseHolds == Spec => []Base
<1>1. Init => Base
  <2> SUFFICES ASSUME Init PROVE Base
    OBVIOUS
  <2>1. HologramTypeOK
    <3>1. current \in 0..MaxReports
      BY HologramAssumption DEF Init, HologramInit
    <3>2. wire \in [Reports -> Nat] /\ taken \in [Reports -> Nat]
      BY DEF Init, HologramInit
    <3> QED BY <3>1, <3>2 DEF Init, HologramTypeOK, HologramInit, Error
  <2>2. ClockTypeOK
    BY ClockAssumption DEF Init, ClockTypeOK, ClockInit
  <2>3. MainTypeOK
    BY Ends DEF Init, MainTypeOK
  <2>4. WakeInv /\ Numbered
    BY DEF Init, WakeInv, ClockInit, Numbered
  <2> QED BY <2>1, <2>2, <2>3, <2>4 DEF Base
<1>2. Base /\ [Next]_vars => Base'
  BY HologramStep, ClockStep, MainStep, WakeStep, NumberedStep DEF Base
<1> QED BY <1>1, <1>2, PTL DEF Spec

(* TypeOK holds for every width of a word and any number of reports: the   *)
(* awake time is never negative, and the two words fit (main.c:202,        *)
(* motion.c:82-83).                                                        *)
THEOREM TypeCorrect == Spec => []TypeOK
<1>1. Base => TypeOK
  BY DEF Base, MainTypeOK, TypeOK, Words, Spans, Times
<1> QED BY <1>1, BaseHolds, PTL

(* AwakeCountsWords: the awake time is too long by exactly the words that  *)
(* had passed at the wake, whatever their width (main.c:202, 405).         *)
THEOREM AwakeOffByWords == Spec => []AwakeCountsWords
<1>1. ASSUME Base, pc = "sending"
      PROVE  awake_s = uptime - woken_at + (woken_at \div Word) * Word
  <2> DEFINE lost == (woken_at \div Word) * Word
             low == woken_at % Word
  <2>1. woken_at \in Nat /\ uptime \in Nat
    BY <1>1, ClockAssumption DEF Base, MainTypeOK, ClockTypeOK, Times
  <2>2. /\ low \in 0..(Word - 1)
        /\ woken_at \div Word \in Nat
        /\ woken_at = lost + low
    BY <2>1, TwoWords, Zenon
  <2>3. wake_uptime_ms = low /\ awake_s = uptime - wake_uptime_ms
    BY <1>1, Zenon DEF Base, WakeInv
  <2>4. lost \in Nat
    BY <2>2, ClockAssumption
  <2> HIDE DEF lost, low
  <2>5. awake_s = uptime - woken_at + lost
    BY <2>1, <2>2, <2>3, <2>4, ClockAssumption
  <2> QED BY <2>5 DEF lost
<1>2. Base => AwakeCountsWords
  BY <1>1 DEF AwakeCountsWords
<1> QED BY <1>2, BaseHolds, PTL

-----------------------------------------------------------------------------
(* Connections: what is open where, and where main has to be.              *)

OpenInv ==
  /\ pc # "sending" => at = "out"
  /\ at \in {"out", "getaddrinfo"} => ~fd /\ ~res
  /\ at \in {"out", "getaddrinfo", "socket", "connect"} => answer = "none"
  /\ at \notin {"out", "cleanup"} => err = "none"

LEMMA OpenStep ==
  ASSUME OpenInv, [Next]_vars
  PROVE  OpenInv'
<1> USE DEF OpenInv, hologram_vars, call_vars, handles, net_vars
<1>1. CASE ReportBegins
  BY <1>1 DEF ReportBegins, HologramSend, EnvelopeFails
<1>2. CASE Retries
  BY <1>2 DEF Retries, HologramSend, EnvelopeFails
<1>3. CASE Sends
  <2>1. pc' = pc
    BY <1>3 DEF Sends
  <2>2. CASE GetAddrInfo \/ OpenSocket \/ Connect \/ SetSockOpt
    BY <2>1, <2>2 DEF GetAddrInfo, OpenSocket, Connect, SetSockOpt, Fails
  <2>3. CASE Send \/ Recv \/ RecvFails \/ Cleanup
    BY <2>1, <2>3 DEF Send, Recv, RecvFails, Cleanup, Fails
  <2> QED BY <1>3, <2>2, <2>3 DEF Sends, SocketSendEnvelope
<1>4. CASE Server
  BY <1>4 DEF Server, ServerAnswers, EnvelopeLost
<1>5. CASE TimePasses \/ Jolt \/ Wakes \/ Skips \/ TooLarge \/ ReportEnds
  BY <1>5 DEF TimePasses, Jolt, Wakes, Skips, TooLarge, ReportEnds
<1>6. CASE Goes
  BY <1>6 DEF Goes
<1>7. CASE UNCHANGED vars
  BY <1>7 DEF vars
<1> QED BY <1>1, <1>2, <1>3, <1>4, <1>5, <1>6, <1>7 DEF Next

LEMMA OpenHolds == Spec => []OpenInv
<1>1. Init => OpenInv
  BY DEF Init, HologramInit, OpenInv
<1> QED BY <1>1, OpenStep, PTL DEF Spec

(* NothingLeftOpen: whichever call failed, neither the socket nor the      *)
(* address is left over after any number of reports (hologram.c:148-153).  *)
THEOREM AllClosed == Spec => []NothingLeftOpen
<1>1. OpenInv => NothingLeftOpen
  BY DEF OpenInv, NothingLeftOpen
<1> QED BY <1>1, OpenHolds, PTL

-----------------------------------------------------------------------------
(* Envelopes: at most one per report, none of reports not begun, and none  *)
(* of the current one as long as a retry is possible.                      *)

Unsent == {"getaddrinfo", "socket", "connect", "setsockopt", "send"}

OnceInv ==
  /\ AtMostOnce
  /\ \A r \in Reports : r > current => wire[r] + taken[r] = 0
  /\ pc = "sending" /\ (at \in Unsent \/ err = "stale") =>
       wire[current] + taken[current] = 0

LEMMA OnceStep ==
  ASSUME Base, Base', OpenInv, OnceInv, [Next]_vars
  PROVE  OnceInv'
<1>1. /\ HologramTypeOK /\ HologramTypeOK' /\ Numbered /\ Numbered'
      /\ Reports \subseteq Nat
  BY DEF Base, Reports
<1>2. \A r \in Reports : wire[r] \in Nat /\ taken[r] \in Nat
  BY <1>1 DEF HologramTypeOK
<1> USE DEF OnceInv, AtMostOnce, hologram_vars, call_vars, handles, net_vars
<1>3. CASE ReportBegins
  <2>1. /\ current' = current + 1 /\ UNCHANGED <<wire, taken>>
        /\ pc' = "sending" /\ current \in Nat
    BY <1>1, <1>3 DEF ReportBegins, HologramTypeOK
  <2>2. current' \in Reports /\ current' > current
    BY <1>1, <2>1 DEF Numbered
  <2>3. wire'[current'] + taken'[current'] = 0
    BY <2>1, <2>2
  <2>4. \A r \in Reports : r > current' => r > current
    BY <1>1, <2>1
  <2> QED BY <2>1, <2>3, <2>4
<1>4. CASE Retries
  <2>1. UNCHANGED <<pc, current, wire, taken>> /\ err = "stale" /\ pc = "sending"
    BY <1>4 DEF Retries
  <2> QED BY <2>1
<1>5. CASE Sends
  <2>1. pc' = pc /\ (pc # "sending" => at = "out")
    BY <1>5 DEF Sends, OpenInv
  <2>2. CASE GetAddrInfo \/ OpenSocket \/ Connect \/ SetSockOpt
    <3>1. at \in Unsent /\ UNCHANGED <<current, wire, taken>> /\ pc = "sending"
      BY <2>1, <2>2
      DEF GetAddrInfo, OpenSocket, Connect, SetSockOpt, Unsent
    <3> QED BY <2>1, <3>1
  <2>3. CASE Send
    <3>1. /\ pc = "sending" /\ current \in Reports
          /\ wire[current] + taken[current] = 0
          /\ UNCHANGED <<current, taken>>
      BY <1>1, <2>1, <2>3 DEF Send, Unsent, Numbered
    <3>2. CASE UNCHANGED wire
      BY <2>1, <3>1, <3>2
    <3>3. CASE /\ wire' = [wire EXCEPT ![current] = @ + 1]
               /\ at' = "recv" /\ err' = err
      <4>1. err # "stale"
        BY <2>3 DEF Send, OpenInv
      <4> QED BY <1>1, <1>2, <2>1, <3>1, <3>3, <4>1 DEF Unsent, HologramTypeOK
    <3> QED BY <2>3, <3>2, <3>3 DEF Send
  <2>4. CASE Recv \/ RecvFails
    <3>1. err' # "stale" /\ at' = "cleanup" /\ UNCHANGED <<current, wire, taken>>
      BY <2>4 DEF Recv, RecvFails
    <3> QED BY <2>1, <3>1 DEF Unsent
  <2>5. CASE Cleanup
    <3>1. err' = err /\ at' = "out" /\ UNCHANGED <<current, wire, taken>>
      BY <2>5 DEF Cleanup
    <3> QED BY <2>1, <3>1 DEF Unsent
  <2> QED BY <1>5, <2>2, <2>3, <2>4, <2>5 DEF Sends, SocketSendEnvelope
<1>6. CASE Server
  <2>1. PICK r \in Reports : ServerAnswers(r) \/ EnvelopeLost(r)
    BY <1>6 DEF Server
  <2>2. /\ wire[r] > 0 /\ wire' = [wire EXCEPT ![r] = @ - 1]
        /\ taken' \in {taken, [taken EXCEPT ![r] = @ + 1]}
        /\ UNCHANGED <<pc, at, err, current>>
    BY <1>6, <2>1 DEF Server, ServerAnswers, EnvelopeLost
  <2>3. \A i \in Reports : wire'[i] + taken'[i] <= wire[i] + taken[i]
    BY <1>1, <1>2, <2>2 DEF HologramTypeOK
  <2>4. \A i \in Reports : wire'[i] \in Nat /\ taken'[i] \in Nat
    BY <1>1 DEF HologramTypeOK
  <2>5. \A i \in Reports :
          wire[i] + taken[i] = 0 => wire'[i] + taken'[i] = 0
    <3> TAKE i \in Reports
    <3>1. \A a, b, c, d \in Nat : c + d <= a + b /\ a + b = 0 => c + d = 0
      OBVIOUS
    <3> QED BY <1>2, <2>3, <2>4, <3>1
  <2>6. AtMostOnce'
    BY <1>2, <2>3, <2>4
  <2>7. pc = "sending" => current \in Reports
    BY <1>1 DEF Numbered
  <2> QED BY <2>2, <2>5, <2>6, <2>7
<1>7. CASE TimePasses \/ Jolt \/ Wakes \/ Skips \/ TooLarge \/ ReportEnds
  BY <1>7 DEF TimePasses, Jolt, Wakes, Skips, TooLarge, ReportEnds
<1>8. CASE Goes
  BY <1>8 DEF Goes
<1>9. CASE UNCHANGED vars
  BY <1>9 DEF vars
<1> QED BY <1>3, <1>4, <1>5, <1>6, <1>7, <1>8, <1>9 DEF Next

LEMMA OnceHolds == Spec => []OnceInv
<1>1. Init => OnceInv
  <2>1. Init => \A r \in Reports : wire[r] = 0 /\ taken[r] = 0
    BY DEF Init, HologramInit
  <2>2. Init => pc # "sending"
    BY DEF Init
  <2> QED BY <2>1, <2>2 DEF OnceInv, AtMostOnce
<1> QED BY <1>1, OnceStep, BaseHolds, OpenHolds, PTL DEF Spec

(* AtMostOnce: however many reports, and whatever fails on the way, no     *)
(* report is accepted twice (main.c:230-242).                              *)
THEOREM NeverTwice == Spec => []AtMostOnce
<1>1. OnceInv => AtMostOnce
  BY DEF OnceInv
<1> QED BY <1>1, OnceHolds, PTL

-----------------------------------------------------------------------------
(* Delivery, of a build that sends.                                        *)

AckInv ==
  /\ answer = "accepted" => taken[current] > 0
  /\ pc = "sending" /\ at \in {"out", "cleanup"} /\ err = "none" =>
       taken[current] > 0

LEMMA AckStep ==
  ASSUME ~OFFLINE_DEBUG, Base, OpenInv, AckInv, [Next]_vars
  PROVE  AckInv'
<1>1. taken \in [Reports -> Nat] /\ (pc # "sending" => at = "out")
  BY DEF Base, HologramTypeOK, OpenInv
<1> USE DEF AckInv, hologram_vars, call_vars, handles, net_vars
<1>2. CASE ReportBegins
  <2>1. err' # "none" \/ at' = "getaddrinfo"
    BY <1>2 DEF ReportBegins, HologramSend, EnvelopeFails
  <2>2. answer' = "none"
    BY <1>2, <1>1 DEF ReportBegins, OpenInv
  <2> QED BY <2>1, <2>2
<1>3. CASE Retries
  <2>1. err' # "none" \/ at' = "getaddrinfo"
    BY <1>3 DEF Retries, HologramSend, EnvelopeFails
  <2>2. UNCHANGED <<answer, taken, current>>
    BY <1>3 DEF Retries
  <2> QED BY <2>1, <2>2
<1>4. CASE Sends
  <2>1. pc' = pc
    BY <1>4 DEF Sends
  <2>2. CASE GetAddrInfo \/ OpenSocket \/ SetSockOpt \/ Send
    BY <2>2 DEF GetAddrInfo, OpenSocket, SetSockOpt, Send, Fails, Error
  <2>3. CASE Connect
    BY <2>3 DEF Connect, Fails, Error
  <2>4. CASE Recv
    BY <2>4 DEF Recv
  <2>5. CASE RecvFails
    BY <2>5 DEF RecvFails
  <2>6. CASE Cleanup
    BY <2>1, <2>6 DEF Cleanup
  <2> QED BY <1>4, <2>2, <2>3, <2>4, <2>5, <2>6 DEF Sends, SocketSendEnvelope
<1>5. CASE Server
  <2>1. PICK r \in Reports : ServerAnswers(r) \/ EnvelopeLost(r)
    BY <1>5 DEF Server
  <2>2. UNCHANGED <<pc, at, err, current>>
    BY <1>5, <2>1 DEF Server, ServerAnswers, EnvelopeLost
  <2>3. current \in Reports /\ taken[current] > 0 => taken'[current] > 0
    BY <1>1, <2>1, <2>2 DEF ServerAnswers, EnvelopeLost
  <2>4. answer' = "accepted" /\ answer # "accepted" => taken'[current] > 0
    BY <1>1, <2>1 DEF ServerAnswers, EnvelopeLost
  <2>5. answer = "accepted" \/ pc = "sending" => current \in Reports
    BY DEF Base, Numbered, OpenInv
  <2> QED BY <2>2, <2>3, <2>4, <2>5
<1>6. CASE TimePasses \/ Jolt \/ Wakes \/ Skips \/ TooLarge \/ ReportEnds
  BY <1>6 DEF TimePasses, Jolt, Wakes, Skips, TooLarge, ReportEnds
<1>7. CASE Goes
  BY <1>7 DEF Goes
<1>8. CASE UNCHANGED vars
  BY <1>8 DEF vars
<1> QED BY <1>2, <1>3, <1>4, <1>5, <1>6, <1>7, <1>8 DEF Next

LEMMA AckHolds == ASSUME ~OFFLINE_DEBUG PROVE Spec => []AckInv
<1>1. Init => AckInv
  BY DEF Init, HologramInit, AckInv
<1>2. Base /\ OpenInv /\ AckInv /\ [Next]_vars => AckInv'
  BY AckStep
<1> QED BY <1>1, <1>2, BaseHolds, OpenHolds, PTL DEF Spec

Arrived == {r \in Reports : taken[r] > 0}

(* Every step of the reports is one of Delivery's steps, or none. *)
LEMMA DeliveryStep ==
  ASSUME Base, Base', OnceInv, AckInv, [Next]_vars
  PROVE  [D!Next]_(D!vars)
<1>1. /\ current \in Nat /\ current <= MaxReports /\ MaxReports \in Nat
      /\ taken \in [Reports -> Nat] /\ wire \in [Reports -> Nat] /\ Numbered
  BY HologramAssumption DEF Base, HologramTypeOK
<1> USE DEF D!Next, D!vars, hologram_vars, net_vars
<1>2. CASE ReportBegins
  <2>1. current' = current + 1 /\ current' \in Reports
    BY <1>1, <1>2 DEF ReportBegins, Reports
  <2>2. UNCHANGED <<taken, success>>
    BY <1>2 DEF ReportBegins
  <2>3. D!Begin(current')
    BY <1>1, <2>1, <2>2 DEF D!Begin
  <2> QED BY <2>1, <2>3
<1>3. CASE ReportEnds
  <2>1. UNCHANGED <<current, taken>> /\ pc = "sending" /\ at = "out"
    BY <1>3 DEF ReportEnds
  <2>2. CASE err # "none"
    BY <1>3, <2>1, <2>2 DEF ReportEnds
  <2>3. CASE err = "none"
    <3>1. current \in Reports /\ taken[current] > 0
      BY <1>1, <2>1, <2>3 DEF Numbered, AckInv
    <3>2. D!Succeed(current)
      BY <1>3, <2>1, <2>3, <3>1 DEF ReportEnds, D!Succeed
    <3> QED BY <3>1, <3>2
  <2> QED BY <2>2, <2>3
<1>4. CASE Server
  <2>1. PICK r \in Reports : ServerAnswers(r) \/ EnvelopeLost(r)
    BY <1>4 DEF Server
  <2>2. /\ wire[r] > 0 /\ UNCHANGED <<current, success>>
        /\ taken' \in {taken, [taken EXCEPT ![r] = @ + 1]}
    BY <1>4, <2>1 DEF Server, ServerAnswers, EnvelopeLost
  <2>3. r \in 1..current
    BY <1>1, <2>2 DEF OnceInv, Reports
  <2>4. CASE taken' = taken
    BY <2>2, <2>4
  <2>5. CASE taken' = [taken EXCEPT ![r] = @ + 1]
    <3>1. Arrived' = Arrived \cup {r}
      BY <1>1, <2>5 DEF Arrived
    <3>2. D!Arrive(r)
      BY <2>2, <2>3, <3>1 DEF D!Arrive, Arrived
    <3> QED BY <3>2
  <2> QED BY <2>2, <2>4, <2>5
<1>5. CASE Sends
  BY <1>5 DEF Sends, SocketSendEnvelope, GetAddrInfo, OpenSocket, Connect,
     SetSockOpt, Send, Recv, RecvFails, Cleanup
<1>6. CASE \/ TimePasses \/ Jolt \/ Wakes \/ Skips \/ TooLarge \/ Retries \/ Goes
  BY <1>6 DEF TimePasses, Jolt, Wakes, Skips, TooLarge, Retries, Goes
<1>7. CASE UNCHANGED vars
  BY <1>7 DEF vars
<1> QED BY <1>2, <1>3, <1>4, <1>5, <1>6, <1>7 DEF Next

(* DeliversAsPromised: a send that returns 0 has been accepted, for any    *)
(* number of reports and every way in which the network fails              *)
(* (hologram.c:132-146, main.c:228-248).  An offline build sends nothing.  *)
THEOREM Implements == ASSUME ~OFFLINE_DEBUG PROVE Spec => DeliversAsPromised
<1>1. Init => D!Init
  BY DEF Init, HologramInit, D!Init
<1>2. Base /\ Base' /\ OnceInv /\ AckInv /\ [Next]_vars
        => [D!Next]_(D!vars)
  BY DeliveryStep
<1> QED
  BY <1>1, <1>2, BaseHolds, OnceHolds, AckHolds, PTL
  DEF Spec, DeliversAsPromised, D!Spec

-----------------------------------------------------------------------------
(* The two words of the last jolt.                                         *)

JoltInv ==
  /\ last_jolt <= uptime
  /\ last_event_lo = last_jolt % Word
  /\ IF now = 0 THEN last_event_hi = last_jolt \div Word
                ELSE last_event_hi = now \div Word /\ now = uptime

LEMMA JoltStep ==
  ASSUME JoltInv, ClockTypeOK, [Next]_vars
  PROVE  JoltInv'
<1> USE DEF JoltInv, clock_vars, jolt_vars
<1>1. uptime \in Nat \ {0} /\ last_jolt \in Nat
  BY ClockAssumption DEF ClockTypeOK
<1>2. CASE TimePasses
  BY <1>1, <1>2 DEF TimePasses, Tick
<1>3. CASE Jolt /\ JoltStoresHigh
  <2>1. /\ now' = uptime /\ last_event_hi' = now' \div Word /\ now' # 0
        /\ UNCHANGED <<uptime, last_event_lo, last_jolt>>
    BY <1>1, <1>3 DEF JoltStoresHigh
  <2> QED BY <2>1
<1>4. CASE Jolt /\ JoltStoresLow
  <2>1. /\ last_jolt' = uptime /\ uptime' = uptime /\ now' = 0
        /\ last_event_hi' = last_jolt' \div Word
        /\ last_event_lo' = last_jolt' % Word
    BY <1>4 DEF JoltStoresLow
  <2> QED BY <1>1, <2>1
<1>5. CASE \/ Wakes \/ Skips \/ ReportBegins \/ TooLarge \/ Sends \/ Retries
           \/ ReportEnds \/ Goes \/ Server
  BY <1>5 DEF Wakes, Skips, ReportBegins, TooLarge, Sends, Retries,
     ReportEnds, Goes, Server
<1>6. CASE UNCHANGED vars
  BY <1>6 DEF vars
<1> QED BY <1>2, <1>3, <1>4, <1>5, <1>6 DEF Next, Jolt

LEMMA TornReads ==
  ASSUME JoltInv, ClockTypeOK
  PROVE  TornReadHarmless
<1> DEFINE read == motion_last_event_uptime
           latest == IF now = 0 THEN last_jolt ELSE now
<1>1. /\ uptime \in Nat /\ last_jolt \in Nat /\ now \in Nat
      /\ SURGE \in Nat /\ SURGE > 0
  BY ClockAssumption DEF ClockTypeOK
<1>2. CASE now = 0
  <2>1. read = last_jolt
    BY <1>1, <1>2, TwoWords DEF JoltInv, motion_last_event_uptime
  <2> QED BY <2>1 DEF TornReadHarmless, surge_active
<1>3. CASE now # 0
  <2>1. read \in Nat /\ last_jolt <= read
    BY <1>1, <1>3, TornIsNotEarlier DEF JoltInv, motion_last_event_uptime
  <2>2. latest = uptime /\ uptime # 0
    BY <1>3 DEF JoltInv
  <2> HIDE DEF read, latest
  <2>3. SurgeFrom(latest) = TRUE
    BY <1>1, <2>2 DEF SurgeFrom
  <2>4. SurgeFrom(read) = FALSE => SurgeFrom(last_jolt) = FALSE
    BY <1>1, <2>1 DEF SurgeFrom
  <2>5. SurgeFrom(read) \in BOOLEAN
    BY DEF SurgeFrom
  <2> QED BY <2>3, <2>4, <2>5, Zenon DEF TornReadHarmless, surge_active, read, latest
<1> QED BY <1>2, <1>3

(* TornReadHarmless: a read between the two stores answers as one of the   *)
(* two stamps does, for words of any width (motion.c:76-83, 182-188).      *)
THEOREM TornReadsDecide == Spec => []TornReadHarmless
<1>1. Init => JoltInv
  <2>1. Init => uptime = 1 /\ last_jolt = 0 /\ now = 0
    BY DEF Init, ClockInit
  <2>2. 0 % Word = 0 /\ 0 \div Word = 0
    BY ClockAssumption
  <2> QED BY <2>1, <2>2 DEF Init, ClockInit, JoltInv
<1>2. Base => ClockTypeOK
  BY DEF Base
<1>3. JoltInv /\ ClockTypeOK /\ [Next]_vars => JoltInv'
  BY JoltStep
<1>4. JoltInv /\ ClockTypeOK => TornReadHarmless
  BY TornReads
<1> QED BY <1>1, <1>2, <1>3, <1>4, BaseHolds, PTL DEF Spec

-----------------------------------------------------------------------------
(* The discharge curve.                                                    *)

(* The points of the curve (telemetry.c:24-32). *)
LEMMA Points ==
  /\ lipo_curve[1].lvl_mV = 4200 /\ lipo_curve[1].lvl_pptt = 10000
  /\ lipo_curve[2].lvl_mV = 4050 /\ lipo_curve[2].lvl_pptt = 9000
  /\ lipo_curve[3].lvl_mV = 3900 /\ lipo_curve[3].lvl_pptt = 7500
  /\ lipo_curve[4].lvl_mV = 3750 /\ lipo_curve[4].lvl_pptt = 5000
  /\ lipo_curve[5].lvl_mV = 3600 /\ lipo_curve[5].lvl_pptt = 2500
  /\ lipo_curve[6].lvl_mV = 3450 /\ lipo_curve[6].lvl_pptt = 1000
  /\ lipo_curve[7].lvl_mV = 3200 /\ lipo_curve[7].lvl_pptt = 0
BY SMT DEF lipo_curve

(* The walk stops at the lower end of the segment (telemetry.c:38-57). *)
LEMMA Segment ==
  ASSUME NEW mv \in Nat, NEW i \in 2..7,
         lipo_curve[i].lvl_mV <= mv, mv < lipo_curve[i - 1].lvl_mV
  PROVE  battery_level_pptt(mv) = Interpolate(i, mv)
<1> DEFINE Covers(j) == lipo_curve[j].lvl_mV <= mv /\ mv < lipo_curve[j - 1].lvl_mV
<1>1. ~(mv >= lipo_curve[1].lvl_mV) /\ ~(mv < lipo_curve[7].lvl_mV)
  BY Points, SMT
<1>2. \A j \in 2..7 : Covers(j) => j = i
  BY Points, SMT
<1>3. i = CHOOSE j \in 2..7 : Covers(j)
  BY <1>2
<1> QED BY <1>1, <1>3, Zenon DEF battery_level_pptt

(* OnCurve for every voltage, in the range of a cell or not. *)
LEMMA CurvePoint ==
  ASSUME NEW mv \in Nat
  PROVE  OnCurve(mv)
<1> DEFINE x == telemetry_battery_percent(mv)
           pptt == battery_level_pptt(mv)
           Line(j) == LET b == lipo_curve[j]
                          a == lipo_curve[j - 1]
                          rise == (a.lvl_pptt - b.lvl_pptt) * (mv - b.lvl_mV)
                          run == a.lvl_mV - b.lvl_mV
                      IN  b.lvl_mV <= mv /\ mv <= a.lvl_mV =>
                            /\ (100 * x - b.lvl_pptt) * run <= rise
                            /\ rise < (100 * (x + 1) - b.lvl_pptt) * run
<1>1. pptt \in Nat => x \in Nat /\ 100 * x <= pptt /\ pptt < 100 * (x + 1)
  BY SMT DEF telemetry_battery_percent
<1>2. CASE mv >= 4200
  <2>1. pptt = 10000
    BY <1>2, Points, SMT DEF battery_level_pptt
  <2> HIDE DEF pptt, x
  <2>2. x = 100
    BY <1>1, <2>1, SMT
  <2>3. \A j \in 2..7 : Line(j)
    BY <1>2, <2>2, Points, SMT
  <2> QED BY <1>2, <2>2, <2>3, SMT DEF OnCurve, x
<1>3. CASE mv < 3200
  <2>1. pptt = 0
    BY <1>3, Points, SMT DEF battery_level_pptt
  <2> HIDE DEF pptt, x
  <2>2. x = 0
    BY <1>1, <2>1, SMT
  <2>3. \A j \in 2..7 : Line(j)
    BY <1>3, <2>2, Points, SMT
  <2> QED BY <1>3, <2>2, <2>3, SMT DEF OnCurve, x
<1>4. ASSUME mv >= 3200, mv < 4200 PROVE OnCurve(mv)
  <2>1. \E i \in 2..7 :
          lipo_curve[i].lvl_mV <= mv /\ mv < lipo_curve[i - 1].lvl_mV
    BY <1>4, Points, SMT
  <2>2. PICK i \in 2..7 :
          lipo_curve[i].lvl_mV <= mv /\ mv < lipo_curve[i - 1].lvl_mV
    BY <2>1
  <2>3. pptt = Interpolate(i, mv)
    BY <2>2, Segment
  <2> HIDE DEF pptt, x
  <2>4. LET pb == lipo_curve[i]
            pa == lipo_curve[i - 1]
            rise == (pa.lvl_pptt - pb.lvl_pptt) * (mv - pb.lvl_mV)
            run == pa.lvl_mV - pb.lvl_mV
        IN  /\ pptt \in Nat
            /\ (pptt - pb.lvl_pptt) * run <= rise
            /\ rise < (pptt + 1 - pb.lvl_pptt) * run
    BY <2>2, <2>3, Points, SMTT(20) DEF Interpolate
  <2>5. mv = 3200 => x = 0
    BY <1>1, <2>2, <2>4, Points, SMT
  <2>6. \A j \in 2..7 : Line(j)
    <3> TAKE j \in 2..7
    <3>1. x \in Nat /\ 100 * x <= pptt /\ pptt < 100 * (x + 1)
      BY <1>1, <2>4
    <3>2. CASE i = 2
      BY <2>2, <2>4, <3>1, <3>2, Points, SMTT(20)
    <3>3. CASE i = 3
      BY <2>2, <2>4, <3>1, <3>3, Points, SMTT(20)
    <3>4. CASE i = 4
      BY <2>2, <2>4, <3>1, <3>4, Points, SMTT(20)
    <3>5. CASE i = 5
      BY <2>2, <2>4, <3>1, <3>5, Points, SMTT(20)
    <3>6. CASE i = 6
      BY <2>2, <2>4, <3>1, <3>6, Points, SMTT(20)
    <3>7. CASE i = 7
      BY <2>2, <2>4, <3>1, <3>7, Points, SMTT(20)
    <3> QED BY <3>2, <3>3, <3>4, <3>5, <3>6, <3>7, SMT
  <2> QED BY <1>4, <2>5, <2>6, SMT DEF OnCurve, x
<1> QED BY <1>2, <1>3, <1>4

(* BatteryOnCurve: whatever the voltage, the percentage is that of the     *)
(* curve, from 0 to 100 (telemetry.c:24-62).                               *)
THEOREM ChargeOnCurve == Spec => []BatteryOnCurve
<1>1. Base => batt_mv \in Nat
  <2>1. Millivolts \subseteq Nat
    BY SMT DEF Millivolts
  <2> QED BY <2>1 DEF Base, MainTypeOK
<1>2. Base => BatteryOnCurve
  BY <1>1, CurvePoint DEF BatteryOnCurve
<1> QED BY <1>2, BaseHolds, PTL
=============================================================================

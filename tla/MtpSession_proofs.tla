-------------------------- MODULE MtpSession_proofs --------------------------
(***************************************************************************)
(* What TLAPS proves of a session, for every number of attempts, programs, *)
(* file operations and faults, and every kind of fault.                    *)
(***************************************************************************)
EXTENDS MtpSession, Integers, SequenceTheorems, TLAPS

-----------------------------------------------------------------------------
(* The inductive invariant.  While nothing has failed, what is in the two  *)
(* endpoints is what the running call put there or is owed, and the        *)
(* cellphone holds a session exactly where the call expects one.           *)

\* No transfer is on its way, and none waits.
Idle == outq = <<>> /\ inq = <<>> /\ devWaits = NoId

\* The session the cellphone holds before and after the command of a call.
OpenBefore ==
    /\ stage \in {"repair", "info", "storage", "ready", "get", "send", "close"} => devOpen
    /\ stage = "reopen" => ~devOpen
OpenAfterCall ==
    /\ stage \in {"open", "reopen", "info", "storage", "get", "send"} => devOpen
    /\ stage \in {"repair", "close"} => ~devOpen

\* The calls that a data phase answers.
Getters == {"info", "storage", "get"}

\* The answer that the cellphone owes a call.
Owed ==
    IF stage \in Getters THEN {<<DataPhase(sent), Response("OK", sent)>>}
    ELSE IF stage = "open" THEN {<<Response("OK", sent)>>, <<Response("ALREADY_OPEN", sent)>>}
    ELSE {<<Response("OK", sent)>>}

Command == [op |-> OpOf(stage), id |-> sent]
Payload == [op |-> "payload", id |-> sent]

\* The command is on its way; a payload is; the answer has come; it is lost.
Asked == stage # "send" /\ outq = <<Command>> /\ inq = <<>> /\ devWaits = NoId /\ OpenBefore
Sending ==
    /\ stage = "send" /\ inq = <<>> /\ devOpen
    /\ \/ outq = <<Command, Payload>> /\ devWaits = NoId
       \/ outq = <<Payload>> /\ devWaits \in {sent, NoId}
Answered == outq = <<>> /\ inq \in Owed /\ devWaits = NoId /\ OpenAfterCall

\* What a program has to do with the cellphone while nothing has failed.
WriteOK == (stage \in Calls /\ phase = "write") \/ stage = "ready" => Idle /\ OpenBefore
PayloadOK ==
    stage \in Calls /\ phase = "payload" =>
        /\ stage = "send" /\ inq = <<>> /\ devOpen
        /\ (outq = <<Command>> /\ devWaits = NoId) \/ (outq = <<>> /\ devWaits \in {sent, NoId})
FirstOK == stage \in Calls /\ phase = "first" => Asked \/ Sending \/ Answered \/ Idle
SecondOK ==
    stage \in Calls /\ phase = "second" =>
        stage \in Getters /\ outq = <<>> /\ inq = <<Response("OK", sent)>> /\ devWaits = NoId /\ devOpen
StageOK ==
    /\ paired /\ stage # "reclose"
    /\ stage = "close" => why \in {"unmount", "nostorage"}
    /\ stage = "failed" => why = "nostorage"
    /\ stage = "ended" => Idle /\ ~devOpen /\ ~session
CleanOK == clean => StageOK /\ WriteOK /\ PayloadOK /\ FirstOK /\ SecondOK

\* An attempt that runs is one of those Mtp::open makes.
AttemptOK == stage \in Calls \cup {"start", "ready"} => attempt <= Attempts

Inv == TypeOK /\ AttemptOK /\ CleanOK

-----------------------------------------------------------------------------
(* Sequences of one and two elements, and the operations of the calls.     *)

\* Transfers that come alone.
LEMMA OneIs ==
    ASSUME NEW x
    PROVE  /\ <<x>> # <<>> /\ Head(<<x>>) = x /\ Tail(<<x>>) = <<>>
           /\ Append(<<>>, x) = <<x>> /\ <<>> \o <<x>> = <<x>>
OBVIOUS

\* Transfers that come in pairs.
LEMMA TwoAre ==
    ASSUME NEW x, NEW y
    PROVE  /\ <<x, y>> # <<>> /\ Head(<<x, y>>) = x /\ Tail(<<x, y>>) = <<y>>
           /\ Append(<<x>>, y) = <<x, y>> /\ <<>> \o <<x, y>> = <<x, y>>
<1>1. <<x, y>> # <<>> /\ Head(<<x, y>>) = x
  OBVIOUS
<1>2. Tail(<<x, y>>) = <<y>>
  OBVIOUS
<1>3. Append(<<x>>, y) = <<x, y>>
  <2>1. <<x>> \in Seq({x, y}) /\ y \in {x, y} /\ <<x, y>> \in Seq({x, y}) /\ Len(<<x>>) = 1
    OBVIOUS
  <2>2. /\ Append(<<x>>, y) \in Seq({x, y}) /\ Len(Append(<<x>>, y)) = 2
        /\ Append(<<x>>, y)[1] = x /\ Append(<<x>>, y)[2] = y
    BY <2>1, AppendProperties
  <2>3. \A i \in 1..2 : Append(<<x>>, y)[i] = <<x, y>>[i]
    BY <2>2
  <2> QED
    BY <2>1, <2>2, <2>3, SeqEqual
<1>4. <<>> \o <<x, y>> = <<x, y>>
  OBVIOUS
<1> QED
  BY <1>1, <1>2, <1>3, <1>4

\* No transfer behind no transfer is no transfer.
LEMMA NoneIs == <<>> \o <<>> = <<>>
OBVIOUS

\* The operation each call asks for.
LEMMA OpOfIs ==
    ASSUME NEW call \in Calls
    PROVE  /\ call \in {"open", "reopen"} => OpOf(call) = "Open"
           /\ call \in {"repair", "close", "reclose"} => OpOf(call) = "Close"
           /\ call = "send" => OpOf(call) = "Send"
           /\ call \in Getters => OpOf(call) = "Get"
           /\ OpOf(call) \in {"Open", "Close", "Send", "Get"}
BY DEF OpOf, Calls, Opens, Uses, Drops, Getters

\* The answer to each operation.
LEMMA AnswerIs ==
    ASSUME NEW w, w.op \in {"Open", "Close", "Get", "Send", "payload"}, devOpen \in BOOLEAN
    PROVE  /\ w.op = "Open" => AnswerTo(w) = <<Response(IF devOpen THEN "ALREADY_OPEN" ELSE "OK", w.id)>>
           /\ w.op = "Close" => AnswerTo(w) = <<Response(IF devOpen THEN "OK" ELSE "NOT_OPEN", w.id)>>
           /\ w.op = "Get" /\ devOpen => AnswerTo(w) = <<DataPhase(w.id), Response("OK", w.id)>>
           /\ w.op = "payload" \/ (w.op = "Send" /\ devOpen) => AnswerTo(w) = <<>>
           /\ w.op \in {"Get", "Send"} /\ ~devOpen => AnswerTo(w) = <<Response("NOT_OPEN", w.id)>>
BY DEF AnswerTo

-----------------------------------------------------------------------------
(* Types.                                                                  *)

\* Where a program goes, with the types of what changes on the way.
Moves ==
    /\ stage' \in Calls \cup Rests \cup {"start"} /\ phase' \in Phases /\ inq' \in Seq(Answers)
    /\ attempt' \in 1..(Attempts + 1) /\ asked' \in 0..(StorageTries - 1)
    /\ why' \in {"retry", "device", "nostorage", "unmount"}
    /\ AttemptOK'

\* What Drop leaves behind: attempts stay within their count.
LEMMA DroppedMoves ==
    ASSUME TypeOK, AttemptOK, stage \in Calls, NEW open, NEW q \in Seq(Answers), Dropped(open, q)
    PROVE  Moves
<1>1. attempt \in Nat /\ attempt >= 1 /\ attempt <= Attempts /\ Attempts \in Nat
  BY BoundsAssumption DEF TypeOK, AttemptOK
<1>2. asked' = asked /\ why' = why /\ asked \in 0..(StorageTries - 1) /\ why \in {"retry", "device", "nostorage", "unmount"}
  BY DEF Dropped, TypeOK
<1>3. CASE stage = "close" /\ open
  <2>1. stage' = "reclose" /\ phase' = "write" /\ inq' = <<>> /\ attempt' = attempt
    BY <1>3 DEF Dropped, Enter, Drained
  <2>2. inq' \in Seq(Answers)
    BY <2>1, EmptySeq
  <2> QED
    BY <1>1, <1>2, <2>1, <2>2 DEF Moves, AttemptOK, Calls, Drops, Phases
<1>4. CASE ~(stage = "close" /\ open)
  <2>1. stage' = AfterDrop /\ phase' = "write" /\ inq' = q /\ attempt' = attempt + 1
    BY <1>4 DEF Dropped, Enter
  <2>2. (AfterDrop = "start" /\ attempt < Attempts) \/ AfterDrop \in {"ended", "failed"}
    BY DEF AfterDrop
  <2> QED
    BY <1>1, <1>2, <2>1, <2>2 DEF Moves, AttemptOK, Calls, Opens, Uses, Drops, Rests, Phases
<1> QED
  BY <1>3, <1>4

\* A call that goes on, or lets its session go, keeps the types.
LEMMA GoesOnMoves ==
    ASSUME TypeOK, AttemptOK, stage \in Calls \cup {"ready"}, NEW q \in Seq(Answers),
           \/ \E s \in Calls \cup {"ready"} : Continue(s, q)
           \/ \E reason \in {"retry", "device", "nostorage", "unmount"} : LetGo(reason, q)
           \/ Enter("storage", q) /\ asked' \in 0..(StorageTries - 1) /\ UNCHANGED <<attempt, why>>
    PROVE  Moves
<1>1. attempt \in 1..(Attempts + 1) /\ attempt <= Attempts /\ asked \in 0..(StorageTries - 1)
      /\ why \in {"retry", "device", "nostorage", "unmount"}
  BY DEF TypeOK, AttemptOK
<1>2. /\ stage' \in Calls \cup {"ready"} /\ phase' = "write" /\ inq' = q /\ attempt' = attempt
      /\ asked' \in 0..(StorageTries - 1) /\ why' \in {"retry", "device", "nostorage", "unmount"}
  BY <1>1 DEF Continue, LetGo, Enter, Calls, Opens, Drops
<1> QED
  BY <1>1, <1>2 DEF Moves, AttemptOK, Rests, Phases

\* A call without an outcome keeps the types.
LEMMA FailedMoves ==
    ASSUME TypeOK, AttemptOK, stage \in Calls, NEW q \in Seq(Answers), Failed(q)
    PROVE  Moves /\ session' = session /\ clean' = FALSE
<1>1. session' = session /\ clean' = FALSE
  BY DEF Failed
<1>2. <<>> \in Seq(Answers)
  BY EmptySeq
<1>3. "reopen" \in Calls /\ "retry" \in {"retry", "device", "nostorage", "unmount"}
  BY DEF Calls, Opens
<1>4. CASE stage = "repair" /\ Continue("reopen", Drained(q))
  BY <1>1, <1>2, <1>3, <1>4, GoesOnMoves DEF Drained
<1>5. CASE LetGo("retry", q)
  BY <1>1, <1>3, <1>5, GoesOnMoves
<1>6. CASE Continue("ready", q)
  BY <1>1, <1>6, GoesOnMoves
<1>7. CASE Dropped(session, q)
  BY <1>1, <1>7, DroppedMoves
<1> QED
  BY <1>1, <1>4, <1>5, <1>6, <1>7 DEF Failed

\* A call with an outcome keeps the types.
LEMMA OutcomeMoves ==
    ASSUME TypeOK, AttemptOK, stage \in Calls, NEW code \in Codes, NEW q \in Seq(Answers), Outcome(code, q)
    PROVE  Moves /\ session' \in BOOLEAN
<1>1. session' \in BOOLEAN
  BY OpOfIs DEF Outcome, SessionAfter, TypeOK
<1>2. <<>> \in Seq(Answers)
  BY EmptySeq
<1>3. {"repair", "info", "reopen", "storage"} \subseteq Calls
  BY DEF Calls, Opens
<1>4. \/ \E s \in Calls \cup {"ready"} : Continue(s, q)
      \/ \E reason \in {"retry", "device", "nostorage", "unmount"} : LetGo(reason, q)
      \/ Continue("reopen", Drained(q))
      \/ FirstStorage(q)
      \/ Dropped(session', q)
  BY <1>3 DEF Outcome, Repair
<1>5. CASE \/ \E s \in Calls \cup {"ready"} : Continue(s, q)
           \/ \E reason \in {"retry", "device", "nostorage", "unmount"} : LetGo(reason, q)
  BY <1>1, <1>5, GoesOnMoves
<1>6. CASE Continue("reopen", Drained(q))
  BY <1>1, <1>2, <1>3, <1>6, GoesOnMoves DEF Drained
<1>7. CASE FirstStorage(q)
  <2>1. CASE asked + 1 < StorageTries /\ Enter("storage", q) /\ asked' = asked + 1 /\ UNCHANGED <<attempt, why>>
    <3>1. asked' \in 0..(StorageTries - 1)
      BY <2>1, BoundsAssumption DEF TypeOK
    <3> QED
      BY <1>1, <2>1, <3>1, GoesOnMoves
  <2>2. CASE Continue("ready", q) \/ LetGo("nostorage", q)
    BY <1>1, <2>2, GoesOnMoves
  <2> QED
    BY <1>7, <2>1, <2>2 DEF FirstStorage
<1>8. CASE Dropped(session', q)
  BY <1>1, <1>8, DroppedMoves
<1> QED
  BY <1>1, <1>4, <1>5, <1>6, <1>7, <1>8

\* The types of a step, put together.
LEMMA TypesMeet ==
    ASSUME Moves, devOpen' \in BOOLEAN, devWaits' \in Nat, outq' \in Seq(Written), session' \in BOOLEAN,
           sent' \in Nat, uses' \in 0..MaxUses, faults' \in 0..MaxFaults, programs' \in 1..MaxPrograms,
           paired' \in BOOLEAN, clean' \in BOOLEAN
    PROVE  TypeOK' /\ AttemptOK'
BY DEF Moves, TypeOK

\* The program of a step that leaves it where it is.
LEMMA StaysMoves ==
    ASSUME TypeOK, AttemptOK, UNCHANGED <<stage, attempt, asked, why>>, phase' \in Phases, inq' \in Seq(Answers)
    PROVE  Moves
BY DEF Moves, TypeOK, AttemptOK

\* What the cellphone answers is a sequence of answers.
LEMMA AnswersTyped ==
    ASSUME NEW w \in Written, devOpen \in BOOLEAN
    PROVE  AnswerTo(w) \in Seq(Answers)
<1>1. w.op \in {"Open", "Close", "Get", "Send", "payload"} /\ w.id \in Nat
  BY DEF Written
<1>2. /\ DataPhase(w.id) \in Answers
      /\ \A code \in Codes : Response(code, w.id) \in Answers
  BY <1>1 DEF DataPhase, Response, Answers, Codes
<1>3. /\ <<>> \in Seq(Answers)
      /\ \A x \in Answers : <<x>> \in Seq(Answers)
      /\ \A x, y \in Answers : <<x, y>> \in Seq(Answers)
  BY EmptySeq
<1>4. {"OK", "ALREADY_OPEN", "NOT_OPEN"} \subseteq Codes
  BY DEF Codes
<1>5. \/ AnswerTo(w) = <<>>
      \/ AnswerTo(w) = <<DataPhase(w.id), Response("OK", w.id)>>
      \/ \E code \in {"OK", "ALREADY_OPEN", "NOT_OPEN"} : AnswerTo(w) = <<Response(code, w.id)>>
  BY <1>1, AnswerIs
<1> QED
  BY <1>2, <1>3, <1>4, <1>5

-----------------------------------------------------------------------------
(* The steps of the cellphone.                                             *)

\* The cellphone keeps the types.
LEMMA DeviceTypes == ASSUME TypeOK, AttemptOK, Device PROVE TypeOK' /\ AttemptOK'
<1> DEFINE w == Head(outq)
<1>1. /\ outq # <<>> /\ outq' = Tail(outq)
      /\ UNCHANGED <<stage, phase, host, sent, uses, programs, paired, clean>>
  BY DEF Device
<1>2. w \in Written /\ outq' \in Seq(Written)
  BY <1>1, HeadTailProperties DEF TypeOK
<1>3. devOpen \in BOOLEAN /\ devWaits \in Nat /\ inq \in Seq(Answers) /\ sent \in Nat /\ faults \in 0..MaxFaults
  BY DEF TypeOK
<1>4. w.op \in {"Open", "Close", "Get", "Send", "payload"} /\ w.id \in Nat
  BY <1>2 DEF Written
<1>5. OpenAfter(w) \in BOOLEAN
  BY <1>3 DEF OpenAfter
<1>6. devOpen' \in BOOLEAN /\ devWaits' \in Nat /\ inq' \in Seq(Answers) /\ faults' \in 0..MaxFaults
  <2>1. CASE /\ devWaits # NoId /\ devWaits' = NoId
             /\ inq' = Append(inq, Response(IF w.op = "payload" THEN "OK" ELSE "INCOMPLETE", devWaits))
             /\ UNCHANGED <<devOpen, faults>>
    <3>1. Response(IF w.op = "payload" THEN "OK" ELSE "INCOMPLETE", devWaits) \in Answers
      BY <1>3 DEF Response, Answers, Codes
    <3>2. inq' \in Seq(Answers)
      BY <1>3, <2>1, <3>1, AppendProperties
    <3> QED
      BY <1>3, <2>1, <3>2 DEF NoId
  <2>2. CASE /\ devOpen' = OpenAfter(w)
             /\ devWaits' = IF w.op = "Send" /\ devOpen THEN w.id ELSE NoId
             /\ inq' = inq \o AnswerTo(w)
             /\ UNCHANGED faults
    <3>1. inq' \in Seq(Answers)
      BY <1>2, <1>3, <2>2, AnswersTyped, ConcatProperties
    <3> QED
      BY <1>3, <1>4, <1>5, <2>2, <3>1 DEF NoId
  <2>3. CASE Fault("lost") /\ devWaits' = NoId /\ devOpen' \in {devOpen, OpenAfter(w)} /\ UNCHANGED inq
    BY <1>3, <1>5, <2>3, BoundsAssumption DEF Fault, NoId
  <2> QED
    BY <2>1, <2>2, <2>3 DEF Device
<1>7. Moves
  BY <1>1, <1>6, StaysMoves DEF TypeOK, host
<1> QED
  BY <1>1, <1>2, <1>6, <1>7, TypesMeet DEF TypeOK, host

\* A cellphone that takes a transfer of a clean session answers the running
\* call as it is owed, or loses the transfer.
LEMMA DeviceClean == ASSUME Inv, Device, clean PROVE CleanOK'
<1>1. /\ outq # <<>> /\ outq' = Tail(outq)
      /\ stage' = stage /\ phase' = phase /\ session' = session /\ why' = why /\ sent' = sent
      /\ paired' = paired /\ clean' = clean
  BY DEF Device, host
<1>2. StageOK /\ WriteOK /\ PayloadOK /\ FirstOK /\ SecondOK
  BY DEF Inv, CleanOK
<1>3. devOpen \in BOOLEAN /\ sent \in Nat /\ stage \in Calls \cup Rests \cup {"start"}
  BY DEF Inv, TypeOK
<1>4. stage # "ended" /\ StageOK'
  BY <1>1, <1>2 DEF StageOK, Idle
<1>5. ~((stage \in Calls /\ phase = "write") \/ stage = "ready")
  BY <1>1, <1>2 DEF WriteOK, Idle
<1>6. WriteOK'
  BY <1>1, <1>5 DEF WriteOK
<1>7. ~(stage \in Calls /\ phase = "second") /\ SecondOK'
  BY <1>1, <1>2 DEF SecondOK
<1>8. CASE stage \in Calls /\ phase = "payload"
  <2>1. stage = "send" /\ inq = <<>> /\ devOpen /\ outq = <<Command>> /\ devWaits = NoId
    BY <1>1, <1>2, <1>8 DEF PayloadOK
  <2>2. Head(outq) = Command /\ outq' = <<>> /\ Command.op = "Send" /\ Command.id = sent
    BY <1>1, <1>8, <2>1, OneIs, OpOfIs DEF Command
  <2>3. AnswerTo(Command) = <<>> /\ OpenAfter(Command)
    BY <1>3, <2>1, <2>2, AnswerIs DEF OpenAfter
  <2>4. inq' = <<>> /\ devOpen' /\ devWaits' \in {sent, NoId}
    BY <1>3, <2>1, <2>2, <2>3, NoneIs DEF Device
  <2>5. PayloadOK'
    BY <1>1, <2>1, <2>2, <2>4 DEF PayloadOK
  <2>6. FirstOK'
    BY <1>1, <1>8 DEF FirstOK
  <2> QED
    BY <1>1, <1>4, <1>6, <1>7, <2>5, <2>6 DEF CleanOK
<1>9. CASE stage \in Calls /\ phase = "first"
  <2>1. PayloadOK'
    BY <1>1, <1>9 DEF PayloadOK
  <2>2. stage # "reclose" /\ stage \in Calls
    BY <1>2, <1>9 DEF StageOK
  <2>3. Owed' = Owed /\ Command' = Command /\ Payload' = Payload
    BY <1>1 DEF Owed, Command, Payload
  <2>4. SUFFICES Sending' \/ Answered' \/ Idle'
    BY <1>1, <1>4, <1>6, <1>7, <2>1 DEF CleanOK, FirstOK
  <2>5. CASE Asked
    <3> DEFINE w == Command
    <3>1. stage # "send" /\ inq = <<>> /\ devWaits = NoId /\ OpenBefore /\ Head(outq) = w /\ outq' = <<>>
      BY <1>1, <2>5, OneIs DEF Asked
    <3>2. w.op = OpOf(stage) /\ w.id = sent
      BY DEF Command
    <3> HIDE DEF w
    <3>3. w.op \in {"Open", "Close", "Get"} /\ w.op # "Send"
      BY <2>2, <3>1, <3>2, OpOfIs DEF Calls, Opens, Uses, Drops, Getters
    <3>4. CASE Fault("lost") /\ devWaits' = NoId /\ UNCHANGED inq
      BY <3>1, <3>4 DEF Idle
    <3>5. CASE /\ devOpen' = OpenAfter(w)
               /\ devWaits' = IF w.op = "Send" /\ devOpen THEN w.id ELSE NoId
               /\ inq' = inq \o AnswerTo(w)
      <4>1. devWaits' = NoId
        BY <3>3, <3>5
      <4>2. inq' = AnswerTo(w)
        <5>1. \E x : AnswerTo(w) = <<x>> \/ \E y : AnswerTo(w) = <<x, y>>
          BY <1>3, <3>1, <3>3, AnswerIs
        <5> QED
          BY <3>1, <3>5, <5>1, OneIs, TwoAre
      <4>3. CASE stage \in {"open", "reopen"}
        <5>1. w.op = "Open"
          BY <2>2, <3>2, <4>3, OpOfIs
        <5>2. inq' = <<Response(IF devOpen THEN "ALREADY_OPEN" ELSE "OK", sent)>> /\ devOpen'
          <6>1. AnswerTo(w) = <<Response(IF devOpen THEN "ALREADY_OPEN" ELSE "OK", sent)>>
            BY <1>3, <3>2, <3>3, <5>1, AnswerIs
          <6>2. OpenAfter(w)
            BY <5>1 DEF OpenAfter
          <6> QED
            BY <3>5, <4>2, <6>1, <6>2, Zenon
        <5>3. inq' \in Owed
          BY <3>1, <4>3, <5>2 DEF OpenBefore, Owed, Getters
        <5> QED
          BY <1>1, <2>3, <3>1, <4>1, <4>3, <5>2, <5>3 DEF Answered, OpenAfterCall
      <4>4. CASE stage \in {"repair", "close"}
        <5>1. w.op = "Close" /\ devOpen
          BY <2>2, <3>1, <3>2, <4>4, OpOfIs DEF OpenBefore
        <5>2. inq' = <<Response("OK", sent)>> /\ ~devOpen'
          <6>1. AnswerTo(w) = <<Response("OK", sent)>>
            BY <1>3, <3>2, <3>3, <5>1, AnswerIs
          <6>2. ~OpenAfter(w)
            BY <5>1 DEF OpenAfter
          <6> QED
            BY <3>5, <4>2, <6>1, <6>2, Zenon
        <5>3. inq' \in Owed
          BY <4>4, <5>2 DEF Owed, Getters
        <5> QED
          BY <1>1, <2>3, <3>1, <4>1, <4>4, <5>2, <5>3 DEF Answered, OpenAfterCall
      <4>5. CASE stage \in Getters
        <5>1. w.op = "Get" /\ devOpen
          BY <2>2, <3>1, <3>2, <4>5, OpOfIs DEF OpenBefore, Getters
        <5>2. inq' = <<DataPhase(sent), Response("OK", sent)>> /\ devOpen'
          <6>1. AnswerTo(w) = <<DataPhase(sent), Response("OK", sent)>>
            BY <1>3, <3>2, <3>3, <5>1, AnswerIs
          <6>2. OpenAfter(w)
            BY <5>1 DEF OpenAfter
          <6> QED
            BY <3>5, <4>2, <6>1, <6>2, Zenon
        <5>3. inq' \in Owed
          BY <4>5, <5>2 DEF Owed
        <5> QED
          BY <1>1, <2>3, <3>1, <4>1, <4>5, <5>2, <5>3 DEF Answered, OpenAfterCall, Getters
      <4> QED
        BY <2>2, <3>1, <4>3, <4>4, <4>5 DEF Calls, Opens, Uses, Drops, Getters
    <3> QED
      BY <3>1, <3>4, <3>5 DEF Device
  <2>6. CASE Sending
    <3>1. stage = "send" /\ inq = <<>> /\ devOpen
      BY <2>6 DEF Sending
    <3>2. CASE outq = <<Command, Payload>> /\ devWaits = NoId
      <4>1. Head(outq) = Command /\ outq' = <<Payload>>
        BY <1>1, <3>2, TwoAre
      <4>2. Command.op = "Send" /\ Command.id = sent
        BY <2>2, <3>1, OpOfIs DEF Command
      <4>3. AnswerTo(Command) = <<>> /\ OpenAfter(Command)
        BY <1>3, <3>1, <4>2, AnswerIs DEF OpenAfter
      <4>4. inq' = <<>> /\ devOpen' /\ devWaits' \in {sent, NoId}
        BY <1>3, <3>1, <3>2, <4>1, <4>2, <4>3, NoneIs DEF Device
      <4> QED
        BY <1>1, <2>3, <3>1, <4>1, <4>4 DEF Sending
    <3>3. CASE outq = <<Payload>> /\ devWaits \in {sent, NoId}
      <4>1. Head(outq) = Payload /\ outq' = <<>>
        BY <1>1, <3>3, OneIs
      <4>2. Payload.op = "payload"
        BY DEF Payload
      <4>3. AnswerTo(Payload) = <<>> /\ OpenAfter(Payload)
        BY <1>3, <3>1, <4>2, AnswerIs DEF OpenAfter
      <4>4. CASE devWaits # NoId /\ devWaits' = NoId /\ inq' = Append(inq, Response("OK", devWaits)) /\ devOpen' = devOpen
        <5>1. inq' = <<Response("OK", sent)>>
          BY <3>1, <3>3, <4>4, OneIs
        <5>2. inq' \in Owed
          BY <3>1, <5>1 DEF Owed, Getters
        <5> QED
          BY <1>1, <2>3, <3>1, <4>1, <4>4, <5>2 DEF Answered, OpenAfterCall
      <4>5. CASE devWaits' = NoId /\ inq' = <<>>
        BY <4>1, <4>5 DEF Idle
      <4> QED
        BY <3>1, <4>1, <4>2, <4>3, <4>4, <4>5, NoneIs DEF Device
    <3> QED
      BY <2>6, <3>2, <3>3 DEF Sending
  <2> QED
    BY <1>1, <1>2, <1>9, <2>5, <2>6 DEF FirstOK, Answered, Idle
<1>10. CASE stage \notin Calls
  BY <1>1, <1>4, <1>6, <1>7, <1>10 DEF CleanOK, PayloadOK, FirstOK
<1>11. phase \in Phases
  BY DEF Inv, TypeOK
<1> QED
  BY <1>5, <1>7, <1>8, <1>9, <1>10, <1>11 DEF Phases

-----------------------------------------------------------------------------
(* The steps of a call.                                                    *)

\* A program that stands before its next call, or before none, on quiet
\* endpoints, is where a clean session can be.
LEMMA EntersClean ==
    ASSUME phase' = "write", inq' = <<>>, outq' = <<>>, devWaits' = NoId, paired', OpenBefore',
           stage' # "reclose",
           stage' = "close" => why' \in {"unmount", "nostorage"},
           stage' = "failed" => why' = "nostorage",
           stage' = "ended" => ~devOpen' /\ ~session'
    PROVE  CleanOK'
BY DEF CleanOK, StageOK, WriteOK, PayloadOK, FirstOK, SecondOK, Idle

\* The answer that a call is owed leads on as Mtp::open, a mount and its end
\* should go.
LEMMA OutcomeClean ==
    ASSUME Inv, stage \in Calls, StageOK, NEW code,
           code = "OK" \/ (stage = "open" /\ code = "ALREADY_OPEN"),
           stage \in Getters => phase = "second", OpenAfterCall, Outcome(code, <<>>),
           outq' = <<>>, devWaits' = NoId, devOpen' = devOpen, paired'
    PROVE  CleanOK'
<1>1. stage # "reclose" /\ devOpen \in BOOLEAN /\ session \in BOOLEAN
  BY DEF StageOK, Inv, TypeOK
<1>2. CASE stage = "open" /\ code = "ALREADY_OPEN"
  <2>1. Continue("repair", <<>>)
    BY <1>2 DEF Outcome, Repair, Uses, Drops
  <2> QED
    BY <1>2, <2>1, EntersClean DEF Continue, Enter, OpenBefore, OpenAfterCall
<1>3. CASE stage \in {"open", "reopen"} /\ code = "OK"
  <2>1. Continue("info", <<>>)
    BY <1>3 DEF Outcome, Uses, Drops
  <2> QED
    BY <1>3, <2>1, EntersClean DEF Continue, Enter, OpenBefore, OpenAfterCall
<1>4. CASE stage = "repair"
  <2>1. Continue("reopen", <<>>)
    BY <1>4 DEF Outcome, Uses, Drops, Drained
  <2> QED
    BY <1>4, <2>1, EntersClean DEF Continue, Enter, OpenBefore, OpenAfterCall
<1>5. CASE stage = "info"
  <2>1. code = "OK" /\ phase = "second"
    BY <1>5 DEF Getters
  <2>2. Continue("storage", <<>>)
    BY <1>5, <2>1 DEF Outcome, Uses, Drops
  <2> QED
    BY <1>5, <2>2, EntersClean DEF Continue, Enter, OpenBefore, OpenAfterCall
<1>6. CASE stage = "storage"
  <2>1. code = "OK" /\ FirstStorage(<<>>)
    BY <1>6 DEF Outcome, Uses, Drops
  <2>2. /\ phase' = "write" /\ inq' = <<>> /\ stage' \in {"ready", "storage", "close"}
        /\ stage' = "close" => why' = "nostorage"
    BY <2>1 DEF FirstStorage, Continue, LetGo, Enter
  <2>3. OpenBefore'
    BY <1>6, <2>2 DEF OpenBefore, OpenAfterCall
  <2> QED
    BY <2>2, <2>3, EntersClean
<1>7. CASE stage \in Uses
  <2>1. Continue("ready", <<>>)
    BY <1>7 DEF Outcome, Uses, Drops
  <2>2. stage' = "ready" /\ phase' = "write" /\ inq' = <<>>
    BY <2>1 DEF Continue, Enter
  <2>3. OpenBefore'
    BY <1>7, <2>2 DEF OpenBefore, OpenAfterCall, Uses
  <2> QED
    BY <2>2, <2>3, EntersClean
<1>8. CASE stage = "close"
  <2>1. code = "OK" /\ session' = SessionAfter("OK") /\ Dropped(session', <<>>)
    BY <1>8 DEF Outcome, Uses, Drops
  <2>2. SessionAfter("OK") = FALSE
    BY <1>1, <1>8, OpOfIs DEF SessionAfter
  <2>3. session' = FALSE
    BY <2>1, <2>2
  <2>4. stage' = AfterDrop /\ phase' = "write" /\ inq' = <<>> /\ why' = why
    BY <2>1, <2>3 DEF Dropped, Enter
  <2>5. why \in {"unmount", "nostorage"} /\ ~devOpen
    BY <1>8 DEF StageOK, OpenAfterCall
  <2>6. (stage' = "ended" /\ why = "unmount") \/ (stage' = "failed" /\ why = "nostorage")
    BY <2>4, <2>5 DEF AfterDrop
  <2>7. OpenBefore'
    BY <2>6 DEF OpenBefore
  <2> QED
    BY <2>3, <2>4, <2>5, <2>6, <2>7, EntersClean
<1> QED
  BY <1>1, <1>2, <1>3, <1>4, <1>5, <1>6, <1>7, <1>8 DEF Calls, Opens, Drops

\* The types of the first and of the second read.
LEMMA ReadTypes ==
    ASSUME TypeOK, AttemptOK, ReadFirst \/ ReadSecond
    PROVE  TypeOK' /\ AttemptOK'
<1>1. /\ stage \in Calls /\ inq # <<>> /\ paired' = (paired /\ Head(inq).id = sent)
      /\ UNCHANGED <<device, outq, bounds>>
  BY DEF ReadFirst, ReadSecond
<1>2. Head(inq) \in Answers /\ Tail(inq) \in Seq(Answers)
  BY <1>1, HeadTailProperties DEF TypeOK
<1>3. Head(inq).code \in Codes
  BY <1>2 DEF Answers
<1>4. paired' \in BOOLEAN
  BY <1>1 DEF TypeOK
<1>5. Moves /\ session' \in BOOLEAN /\ clean' \in BOOLEAN
  <2>1. CASE phase' = "second" /\ inq' = Tail(inq) /\ UNCHANGED <<stage, host, clean>>
    <3>1. Moves
      BY <1>2, <2>1, StaysMoves DEF host, Phases
    <3> QED
      BY <2>1, <3>1 DEF TypeOK, host
  <2>2. CASE Outcome(Head(inq).code, Tail(inq)) /\ UNCHANGED clean
    BY <1>1, <1>2, <1>3, <2>2, OutcomeMoves DEF TypeOK
  <2>3. CASE Failed(Tail(inq))
    BY <1>1, <1>2, <2>3, FailedMoves DEF TypeOK
  <2> QED
    BY <2>1, <2>2, <2>3 DEF ReadFirst, ReadSecond
<1> QED
  BY <1>1, <1>4, <1>5, TypesMeet DEF TypeOK, device, bounds

\* The first read of a clean session takes what the call is owed.
LEMMA ReadFirstClean == ASSUME Inv, ReadFirst, clean PROVE CleanOK'
<1>1. /\ stage \in Calls /\ phase = "first" /\ inq # <<>> /\ paired' = (paired /\ Head(inq).id = sent)
      /\ devOpen' = devOpen /\ devWaits' = devWaits /\ outq' = outq /\ sent' = sent
  BY DEF ReadFirst, device, bounds
<1>2. StageOK /\ Answered /\ paired
  BY <1>1 DEF Inv, CleanOK, StageOK, FirstOK, Asked, Sending, Idle
<1>3. outq' = <<>> /\ devWaits' = NoId /\ inq \in Owed /\ OpenAfterCall
  BY <1>1, <1>2 DEF Answered
<1>4. CASE stage \in Getters
  <2>1. inq = <<DataPhase(sent), Response("OK", sent)>>
    BY <1>3, <1>4 DEF Owed
  <2>2. Head(inq) = DataPhase(sent) /\ Tail(inq) = <<Response("OK", sent)>>
    BY <2>1, TwoAre
  <2>3. Head(inq).kind = "data" /\ Head(inq).id = sent
    BY <2>2 DEF DataPhase
  <2>4. phase' = "second" /\ inq' = <<Response("OK", sent)>> /\ stage' = stage /\ UNCHANGED host
    BY <2>2, <2>3 DEF ReadFirst
  <2>5. devOpen /\ paired'
    BY <1>1, <1>2, <1>3, <1>4, <2>3 DEF OpenAfterCall, Getters
  <2>6. SecondOK'
    BY <1>1, <1>3, <1>4, <2>4, <2>5 DEF SecondOK, Response
  <2>7. StageOK'
    BY <1>2, <1>4, <2>4, <2>5 DEF StageOK, Getters
  <2>8. WriteOK' /\ PayloadOK' /\ FirstOK'
    BY <1>4, <2>4 DEF WriteOK, PayloadOK, FirstOK, Getters
  <2> QED
    BY <2>6, <2>7, <2>8 DEF CleanOK
<1>5. CASE stage \notin Getters
  <2>1. PICK code \in Codes : /\ inq = <<Response(code, sent)>>
                              /\ code = "OK" \/ (stage = "open" /\ code = "ALREADY_OPEN")
    BY <1>3, <1>5 DEF Owed, Codes
  <2>2. Head(inq) = Response(code, sent) /\ Tail(inq) = <<>>
    BY <2>1, OneIs
  <2>3. Head(inq).kind = "response" /\ Head(inq).id = sent /\ Head(inq).code = code
    BY <2>2 DEF Response
  <2>4. Outcome(code, <<>>)
    BY <2>2, <2>3 DEF ReadFirst
  <2>5. paired'
    BY <1>1, <1>2, <2>3
  <2> QED
    BY <1>1, <1>2, <1>3, <1>5, <2>1, <2>4, <2>5, OutcomeClean
<1> QED
  BY <1>4, <1>5

\* The second read of a clean session takes the response.
LEMMA ReadSecondClean == ASSUME Inv, ReadSecond, clean PROVE CleanOK'
<1>1. /\ stage \in Calls /\ phase = "second" /\ inq # <<>> /\ paired' = (paired /\ Head(inq).id = sent)
      /\ devOpen' = devOpen /\ devWaits' = devWaits /\ outq' = outq /\ sent' = sent
  BY DEF ReadSecond, device, bounds
<1>2. /\ StageOK /\ paired /\ stage \in Getters /\ outq = <<>> /\ inq = <<Response("OK", sent)>>
      /\ devWaits = NoId /\ devOpen
  BY <1>1 DEF Inv, CleanOK, StageOK, SecondOK
<1>3. Head(inq) = Response("OK", sent) /\ Tail(inq) = <<>>
  BY <1>2, OneIs
<1>4. Head(inq).kind = "response" /\ Head(inq).id = sent /\ Head(inq).code = "OK"
  BY <1>3 DEF Response
<1>5. Outcome("OK", <<>>) /\ paired'
  BY <1>1, <1>2, <1>3, <1>4 DEF ReadSecond
<1>6. OpenAfterCall
  BY <1>2 DEF OpenAfterCall, Getters
<1> QED
  BY <1>1, <1>2, <1>5, <1>6, OutcomeClean

\* A call without an outcome ends the clean session, and keeps the types.
LEMMA FaultStep ==
    ASSUME Inv, stage \in Calls, Failed(inq), UNCHANGED <<device, outq, sent, uses, programs, paired>>,
           \/ UNCHANGED faults
           \/ \E kind \in FaultKinds : Fault(kind)
    PROVE  Inv'
<1>1. TypeOK /\ AttemptOK /\ inq \in Seq(Answers)
  BY DEF Inv, TypeOK
<1>2. Moves /\ session' = session /\ clean' = FALSE
  BY <1>1, FailedMoves
<1>3. faults' \in 0..MaxFaults
  BY <1>1, BoundsAssumption DEF TypeOK, Fault
<1>4. TypeOK' /\ AttemptOK'
  BY <1>1, <1>2, <1>3, TypesMeet DEF TypeOK, device
<1> QED
  BY <1>2, <1>4 DEF Inv, CleanOK

\* A command reaches the cellphone's endpoint, or a fault ends the clean session.
LEMMA WriteCommandStep == ASSUME Inv, WriteCommand PROVE Inv'
<1>1. stage \in Calls /\ phase = "write" /\ UNCHANGED <<device, uses, programs, paired>> /\ TypeOK /\ AttemptOK
  BY DEF WriteCommand, Inv
<1>2. CASE /\ sent' = sent + 1
           /\ outq' = Append(outq, [op |-> OpOf(stage), id |-> sent + 1])
           /\ phase' = IF stage = "send" THEN "payload" ELSE "first"
           /\ UNCHANGED <<inq, stage, host, faults, clean>>
  <2>1. sent' \in Nat /\ [op |-> OpOf(stage), id |-> sent + 1] \in Written
    BY <1>1, <1>2, OpOfIs DEF TypeOK, Written
  <2>2. outq' \in Seq(Written)
    BY <1>1, <1>2, <2>1, AppendProperties DEF TypeOK
  <2>3. Moves
    BY <1>1, <1>2, StaysMoves DEF TypeOK, host, Phases
  <2>4. TypeOK' /\ AttemptOK'
    BY <1>1, <1>2, <2>1, <2>2, <2>3, TypesMeet DEF TypeOK, device, host
  <2>5. ASSUME clean PROVE CleanOK'
    <3>1. StageOK /\ Idle /\ OpenBefore
      BY <1>1, <2>5 DEF Inv, CleanOK, WriteOK
    <3>2. stage' = stage /\ inq' = inq /\ devOpen' = devOpen /\ devWaits' = devWaits /\ why' = why /\ session' = session
          /\ paired' = paired
      BY <1>1, <1>2 DEF device, host
    <3>3. Command' = [op |-> OpOf(stage), id |-> sent + 1]
      BY <1>2, <3>2 DEF Command
    <3>4. outq' = <<Command'>>
      BY <1>2, <3>1, <3>3, OneIs DEF Idle
    <3>5. StageOK' /\ WriteOK' /\ SecondOK'
      BY <1>1, <1>2, <3>1, <3>2 DEF StageOK, WriteOK, SecondOK, Calls, Opens, Uses, Drops
    <3>6. PayloadOK'
      BY <1>1, <1>2, <3>1, <3>2, <3>4 DEF PayloadOK, Idle, OpenBefore
    <3>7. FirstOK'
      BY <1>1, <1>2, <3>1, <3>2, <3>4 DEF FirstOK, Asked, Idle, OpenBefore
    <3> QED
      BY <3>5, <3>6, <3>7 DEF CleanOK
  <2>6. ~clean => CleanOK'
    BY <1>2 DEF CleanOK
  <2> QED
    BY <2>4, <2>5, <2>6 DEF Inv
<1>3. CASE Fault("write") /\ Failed(inq) /\ UNCHANGED <<outq, sent>>
  <2>1. \E kind \in FaultKinds : Fault(kind)
    BY <1>3 DEF FaultKinds
  <2> QED
    BY <1>1, <1>3, <2>1, FaultStep
<1> QED
  BY <1>2, <1>3 DEF WriteCommand

\* The payload follows its command, or a fault ends the clean session.
LEMMA WritePayloadStep == ASSUME Inv, WritePayload PROVE Inv'
<1>1. stage \in Calls /\ phase = "payload" /\ UNCHANGED <<device, sent, uses, programs, paired>> /\ TypeOK /\ AttemptOK
  BY DEF WritePayload, Inv
<1>2. CASE /\ outq' = Append(outq, [op |-> "payload", id |-> sent])
           /\ phase' = "first"
           /\ UNCHANGED <<inq, stage, host, faults, clean>>
  <2>1. [op |-> "payload", id |-> sent] \in Written
    BY <1>1 DEF TypeOK, Written
  <2>2. outq' \in Seq(Written)
    BY <1>1, <1>2, <2>1, AppendProperties DEF TypeOK
  <2>3. Moves
    BY <1>1, <1>2, StaysMoves DEF TypeOK, host, Phases
  <2>4. TypeOK' /\ AttemptOK'
    BY <1>1, <1>2, <2>2, <2>3, TypesMeet DEF TypeOK, device, host
  <2>5. ASSUME clean PROVE CleanOK'
    <3>1. /\ StageOK /\ stage = "send" /\ inq = <<>> /\ devOpen
          /\ (outq = <<Command>> /\ devWaits = NoId) \/ (outq = <<>> /\ devWaits \in {sent, NoId})
      BY <1>1, <2>5 DEF Inv, CleanOK, PayloadOK
    <3>2. stage' = stage /\ inq' = inq /\ devOpen' = devOpen /\ devWaits' = devWaits /\ why' = why /\ session' = session
          /\ paired' = paired /\ sent' = sent
      BY <1>1, <1>2 DEF device, host
    <3>3. Command' = Command /\ Payload' = Payload /\ outq' = Append(outq, Payload)
      BY <1>2, <3>2 DEF Command, Payload
    <3>4. Sending'
      BY <3>1, <3>2, <3>3, OneIs, TwoAre, ZenonT(100) DEF Sending
    <3>5. StageOK' /\ WriteOK' /\ SecondOK' /\ PayloadOK'
      BY <1>2, <3>1, <3>2 DEF StageOK, WriteOK, SecondOK, PayloadOK
    <3> QED
      BY <3>4, <3>5 DEF CleanOK, FirstOK
  <2>6. ~clean => CleanOK'
    BY <1>2 DEF CleanOK
  <2> QED
    BY <2>4, <2>5, <2>6 DEF Inv
<1>3. CASE (Fault("write") \/ Fault("short")) /\ Failed(inq) /\ UNCHANGED outq
  <2>1. \E kind \in FaultKinds : Fault(kind)
    BY <1>3 DEF FaultKinds
  <2> QED
    BY <1>1, <1>3, <2>1, FaultStep
<1> QED
  BY <1>2, <1>3 DEF WritePayload

\* A read that passes its deadline ends the clean session.
LEMMA TimeOutStep == ASSUME Inv, TimeOut PROVE Inv'
<1>1. stage \in Calls /\ Failed(inq) /\ UNCHANGED <<device, outq, bounds, paired>>
  BY DEF TimeOut
<1> QED
  BY <1>1, FaultStep DEF bounds

-----------------------------------------------------------------------------
(* The steps of a program.                                                 *)

\* Session::new drains, and starts a clean session on a quiet cellphone.
LEMMA NewSessionStep == ASSUME Inv, NewSession PROVE Inv'
<1>1. /\ stage = "start" /\ stage' = "open" /\ phase' = "write" /\ inq' = <<>> /\ session' = FALSE /\ asked' = 0
      /\ clean' = Quiet /\ paired' = TRUE /\ UNCHANGED <<device, outq, attempt, why, bounds>>
  BY DEF NewSession, Enter, Drained
<1>2. Moves
  <2>1. inq' \in Seq(Answers) /\ asked' \in 0..(StorageTries - 1)
    BY <1>1, EmptySeq, BoundsAssumption
  <2> QED
    BY <1>1, <2>1 DEF Inv, TypeOK, AttemptOK, Moves, Calls, Opens, Phases
<1>3. clean' \in BOOLEAN
  BY <1>1 DEF Quiet
<1>4. TypeOK' /\ AttemptOK'
  BY <1>1, <1>2, <1>3, TypesMeet DEF Inv, TypeOK, device, bounds
<1>5. ASSUME clean' PROVE CleanOK'
  <2>1. outq' = <<>> /\ devWaits' = NoId
    BY <1>1, <1>5 DEF Quiet, device
  <2>2. OpenBefore' /\ paired'
    BY <1>1 DEF OpenBefore
  <2> QED
    BY <1>1, <2>1, <2>2, EntersClean
<1>6. ~clean' => CleanOK'
  BY DEF CleanOK
<1> QED
  BY <1>4, <1>5, <1>6 DEF Inv

\* A file operation starts on quiet endpoints.
LEMMA UseStep == ASSUME Inv, Use PROVE Inv'
<1>1. /\ stage = "ready" /\ uses < MaxUses /\ stage' \in Uses /\ phase' = "write" /\ uses' = uses + 1
      /\ UNCHANGED <<device, outq, inq, host, sent, faults, programs, paired, clean>>
  BY DEF Use
<1>2. Moves
  BY <1>1 DEF Inv, TypeOK, AttemptOK, Moves, Calls, Uses, Phases, host
<1>3. uses' \in 0..MaxUses
  BY <1>1, BoundsAssumption DEF Inv, TypeOK
<1>4. TypeOK' /\ AttemptOK'
  BY <1>1, <1>2, <1>3, TypesMeet DEF Inv, TypeOK, device, host
<1>5. ASSUME clean PROVE CleanOK'
  <2>1. StageOK /\ Idle /\ OpenBefore
    BY <1>1, <1>5 DEF Inv, CleanOK, WriteOK
  <2>2. inq' = <<>> /\ outq' = <<>> /\ devWaits' = NoId /\ paired' /\ devOpen'
    BY <1>1, <2>1 DEF Idle, StageOK, OpenBefore, device
  <2>3. OpenBefore'
    BY <1>1, <2>2 DEF OpenBefore, Uses
  <2> QED
    BY <1>1, <2>2, <2>3, EntersClean DEF Uses
<1>6. ~clean => CleanOK'
  BY <1>1 DEF CleanOK
<1> QED
  BY <1>4, <1>5, <1>6 DEF Inv

\* The mount ends, and closes on quiet endpoints.
LEMMA UnmountStep == ASSUME Inv, Unmount PROVE Inv'
<1>1. /\ stage = "ready" /\ stage' = "close" /\ phase' = "write" /\ why' = "unmount" /\ inq' = inq
      /\ UNCHANGED <<device, outq, session, bounds, paired, clean, attempt, asked>>
  BY DEF Unmount, LetGo, Enter
<1>2. Moves
  BY <1>1 DEF Inv, TypeOK, AttemptOK, Moves, Calls, Drops, Phases
<1>3. TypeOK' /\ AttemptOK'
  BY <1>1, <1>2, TypesMeet DEF Inv, TypeOK, device, bounds
<1>4. ASSUME clean PROVE CleanOK'
  <2>1. StageOK /\ Idle /\ OpenBefore
    BY <1>1, <1>4 DEF Inv, CleanOK, WriteOK
  <2>2. inq' = <<>> /\ outq' = <<>> /\ devWaits' = NoId /\ paired' /\ devOpen'
    BY <1>1, <2>1 DEF Idle, StageOK, OpenBefore, device
  <2>3. OpenBefore'
    BY <1>1, <2>2 DEF OpenBefore
  <2> QED
    BY <1>1, <2>2, <2>3, EntersClean
<1>5. ~clean => CleanOK'
  BY <1>1 DEF CleanOK
<1> QED
  BY <1>3, <1>4, <1>5 DEF Inv

\* A crash is a fault.
LEMMA CrashStep == ASSUME Inv, Crash PROVE Inv'
<1>1. /\ stage' = "dead" /\ phase' = "write" /\ inq' = inq /\ clean' = FALSE /\ faults < MaxFaults
      /\ faults' = faults + 1 /\ UNCHANGED <<device, outq, host, sent, uses, programs, paired>>
  BY DEF Crash, Enter, Fault
<1>2. Moves
  BY <1>1 DEF Inv, TypeOK, AttemptOK, Moves, Rests, Calls, Opens, Uses, Drops, Phases, host
<1>3. faults' \in 0..MaxFaults
  BY <1>1, BoundsAssumption DEF Inv, TypeOK
<1>4. TypeOK' /\ AttemptOK'
  BY <1>1, <1>2, <1>3, TypesMeet DEF Inv, TypeOK, device, host
<1> QED
  BY <1>1, <1>4 DEF Inv, CleanOK

\* The next program starts with its first attempt.
LEMMA StartProgramStep == ASSUME Inv, StartProgram PROVE Inv'
<1>1. /\ stage \in {"ended", "failed", "dead"} /\ programs < MaxPrograms /\ stage' = "start" /\ phase' = "write"
      /\ inq' = inq /\ programs' = programs + 1 /\ attempt' = 1
      /\ UNCHANGED <<device, outq, session, asked, why, sent, uses, faults, paired, clean>>
  BY DEF StartProgram, Enter
<1>2. Moves
  <2>1. 1 \in 1..(Attempts + 1) /\ 1 <= Attempts
    BY BoundsAssumption
  <2> QED
    BY <1>1, <2>1 DEF Inv, TypeOK, Moves, AttemptOK, Phases
<1>3. programs' \in 1..MaxPrograms
  BY <1>1, BoundsAssumption DEF Inv, TypeOK
<1>4. TypeOK' /\ AttemptOK'
  BY <1>1, <1>2, <1>3, TypesMeet DEF Inv, TypeOK, device
<1>5. "start" \notin Calls
  BY DEF Calls, Opens, Uses, Drops
<1>6. CleanOK'
  BY <1>1, <1>5 DEF Inv, CleanOK, StageOK, WriteOK, PayloadOK, FirstOK, SecondOK
<1> QED
  BY <1>4, <1>6 DEF Inv

-----------------------------------------------------------------------------
(* The theorems.                                                           *)

\* The first program starts on a cellphone that nobody has used.
LEMMA InitInv == ASSUME Init PROVE Inv
<1>1. <<>> \in Seq(Answers) /\ <<>> \in Seq(Written)
  BY EmptySeq
<1>2. TypeOK /\ AttemptOK
  <2>1. /\ 1 \in 1..(Attempts + 1) /\ 1 <= Attempts /\ 0 \in 0..(StorageTries - 1) /\ 0 \in 0..MaxUses
        /\ 0 \in 0..MaxFaults /\ 1 \in 1..MaxPrograms
    BY BoundsAssumption
  <2> QED
    BY <1>1, <2>1 DEF Init, TypeOK, AttemptOK, Phases, NoId
<1>3. CleanOK
  BY DEF Init, CleanOK
<1> QED
  BY <1>2, <1>3 DEF Inv

\* Nothing changes.
LEMMA StutterStep == ASSUME Inv, UNCHANGED vars PROVE Inv'
<1>1. /\ devOpen' = devOpen /\ devWaits' = devWaits /\ outq' = outq /\ inq' = inq /\ stage' = stage
      /\ phase' = phase /\ session' = session /\ attempt' = attempt /\ asked' = asked /\ why' = why
      /\ sent' = sent /\ uses' = uses /\ faults' = faults /\ programs' = programs
      /\ paired' = paired /\ clean' = clean
  BY DEF vars, device, host, bounds
<1>2. TypeOK' /\ AttemptOK'
  BY <1>1 DEF Inv, TypeOK, AttemptOK
<1>3. CleanOK' = CleanOK
  BY <1>1, Zenon DEF CleanOK, StageOK, WriteOK, PayloadOK, FirstOK, SecondOK, Idle, OpenBefore, Asked, Sending,
                     Answered, OpenAfterCall, Owed, Command, Payload
<1> QED
  BY <1>2, <1>3 DEF Inv

\* Every step keeps the invariant.
LEMMA NextInv == ASSUME Inv, [Next]_vars PROVE Inv'
<1>1. CASE Device
  <2>1. TypeOK' /\ AttemptOK' /\ clean' = clean
    BY <1>1, DeviceTypes DEF Inv, Device
  <2> QED
    BY <1>1, <2>1, DeviceClean DEF Inv, CleanOK
<1>2. CASE ReadFirst
  <2>1. TypeOK' /\ AttemptOK' /\ (clean' => clean)
    BY <1>2, ReadTypes DEF Inv, ReadFirst
  <2> QED
    BY <1>2, <2>1, ReadFirstClean DEF Inv, CleanOK
<1>3. CASE ReadSecond
  <2>1. TypeOK' /\ AttemptOK' /\ (clean' => clean)
    <3>1. (clean' = FALSE) \/ clean' = clean
      BY <1>3 DEF ReadSecond, Failed
    <3>2. TypeOK' /\ AttemptOK'
      BY <1>3, ReadTypes DEF Inv
    <3> QED
      BY <3>1, <3>2
  <2> QED
    BY <1>3, <2>1, ReadSecondClean DEF Inv, CleanOK
<1> QED
  BY <1>1, <1>2, <1>3, NewSessionStep, WriteCommandStep, WritePayloadStep, TimeOutStep, UseStep, UnmountStep,
     CrashStep, StartProgramStep, StutterStep DEF Next, Program

\* The invariant holds in every state of every behaviour.
LEMMA Invariance == Spec => []Inv
BY InitInv, NextInv, PTL DEF Spec

\* The variables of a session keep their types, and no program tries more often
\* than FIND_ATTEMPTS, or asks for a storage more often than first_storage may.
THEOREM SessionTypeCorrect == Spec => []TypeOK
<1>1. Inv => TypeOK
  BY DEF Inv
<1> QED
  BY <1>1, Invariance, PTL

\* While nothing has failed since a session started on a quiet cellphone, every
\* answer read_answer takes belongs to the command before it, although the
\* host never compares the transaction id.
THEOREM AnswersPaired == Spec => []Paired
<1>1. Inv => Paired
  BY DEF Inv, CleanOK, StageOK, Paired
<1> QED
  BY <1>1, Invariance, PTL

\* Whatever session an earlier program left open on the cellphone, a mount that
\* meets no fault fails only for want of a storage (open_session_or_repair).
THEOREM MountsAfterAnyone == Spec => []OpensAfterAnyone
<1>1. Inv => OpensAfterAnyone
  BY DEF Inv, CleanOK, StageOK, OpensAfterAnyone
<1> QED
  BY <1>1, Invariance, PTL

\* A mount that met no fault leaves no session open on the cellphone, and no
\* answer in the endpoint (Drop for Mtp, Drop for Session).
THEOREM EndsClosed == Spec => []EndedIsClosed
<1>1. Inv => EndedIsClosed
  BY DEF Inv, CleanOK, StageOK, EndedIsClosed, Idle
<1> QED
  BY <1>1, Invariance, PTL
==============================================================================

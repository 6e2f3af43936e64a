----------------------------- MODULE MtpSession -----------------------------
(***************************************************************************)
(* One MTP session over two bulk endpoints (crates/mtp-session/src/lib.rs) *)
(* and the program that opens one, uses it and lets it go (Mtp in          *)
(* crates/mtpfs/src/backend.rs).                                           *)
(*                                                                         *)
(* The host sends a command and reads an answer, and every transfer has a  *)
(* deadline.  The cellphone works at its own speed: an answer can come     *)
(* after the host gave up, and stays in the endpoint for whoever reads     *)
(* next.  A program can die between any two transfers, and the next one    *)
(* must find its way.                                                      *)
(*                                                                         *)
(* A container is its kind, its code and the number of the command it      *)
(* answers.  That number is the identity the transaction id stands for;    *)
(* the host sends it and, in read_answer, never looks at it.               *)
(***************************************************************************)
EXTENDS Naturals, Sequences

CONSTANTS
    Attempts,     \* how often Mtp::open tries (FIND_ATTEMPTS)
    StorageTries, \* how often first_storage asks
    MaxUses,      \* bound: file operations all programs do together
    MaxPrograms,  \* bound: programs that run one after the other
    MaxFaults,    \* bound: faults that happen, deadlines that pass not counted
    Faults        \* the faults that can happen, see FaultKinds

\* late: a read passes its deadline although the answer is on its way
\* lost: the cellphone takes a command or payload, and never answers it
\* write: a write fails, and the cellphone got nothing
\* short: the host cannot read the payload it promised to send
\* crash: a program dies
FaultKinds == {"late", "lost", "write", "short", "crash"}

ASSUME BoundsAssumption ==
    /\ Attempts \in Nat \ {0} /\ StorageTries \in Nat \ {0}
    /\ MaxUses \in Nat /\ MaxPrograms \in Nat \ {0} /\ MaxFaults \in Nat
ASSUME FaultsAssumption == Faults \subseteq FaultKinds

\* No command: the cellphone waits for no payload.
NoId == 0

Codes == {"OK", "ALREADY_OPEN", "NOT_OPEN", "INCOMPLETE"}

\* What the host writes: a command, or the payload of the command before it.
Written == [op: {"Open", "Close", "Get", "Send", "payload"}, id: Nat]
\* What the cellphone puts into the endpoint the host reads.
Answers == [kind: {"data", "response"}, code: Codes, id: Nat]

\* The calls a program makes, and the states in which it makes none.
Opens == {"open", "repair", "reopen", "info", "storage"}
Uses == {"get", "send"}
Drops == {"close", "reclose"}
Calls == Opens \cup Uses \cup Drops
Rests == {"ready", "ended", "failed", "dead"}
\* The phase of a call: write the command, write the payload, read the first
\* container, read the response behind a data phase.
Phases == {"write", "payload", "first", "second"}

OpOf(call) ==
    CASE call \in {"open", "reopen"} -> "Open"
      [] call \in {"repair", "close", "reclose"} -> "Close"
      [] call = "send" -> "Send"
      [] OTHER -> "Get"

VARIABLES
    devOpen,   \* the cellphone: it holds an open session
    devWaits,  \* the cellphone: the command whose payload it waits for
    outq,      \* transfers on their way to the cellphone
    inq,       \* transfers the cellphone holds for the host
    stage,     \* what the program does: a call, a rest, or "start"
    phase,     \* the phase of the call
    session,   \* session_open: the host holds a session it opened
    attempt,   \* the attempt of Mtp::open
    asked,     \* how often first_storage asked
    why,       \* why the program lets its session go
    sent,      \* commands sent so far; the number of the last one
    uses,      \* file operations so far
    faults,    \* faults so far
    programs,  \* programs so far
    paired,    \* history: the answers taken in this session belong to their commands
    clean      \* history: no fault since a session started on a quiet cellphone

device == <<devOpen, devWaits>>
bounds == <<sent, uses, faults, programs>>
host == <<session, attempt, asked, why>>
vars == <<device, outq, inq, stage, phase, host, bounds, paired, clean>>

Fault(kind) == kind \in Faults /\ faults < MaxFaults /\ faults' = faults + 1

\* Nothing of an earlier program is on its way.
Quiet == outq = <<>> /\ devWaits = NoId

-----------------------------------------------------------------------------
(* The cellphone takes one transfer after the other.                       *)

Response(code, id) == [kind |-> "response", code |-> code, id |-> id]
DataPhase(id) == [kind |-> "data", code |-> "OK", id |-> id]

\* The answer to a command, in the state the cellphone is in.
AnswerTo(w) ==
    CASE w.op = "Open" -> <<Response(IF devOpen THEN "ALREADY_OPEN" ELSE "OK", w.id)>>
      [] w.op = "Close" -> <<Response(IF devOpen THEN "OK" ELSE "NOT_OPEN", w.id)>>
      [] w.op = "Get" /\ devOpen -> <<DataPhase(w.id), Response("OK", w.id)>>
      [] w.op = "payload" \/ (w.op = "Send" /\ devOpen) -> <<>>
      [] OTHER -> <<Response("NOT_OPEN", w.id)>>

OpenAfter(w) == w.op = "Open" \/ (devOpen /\ w.op # "Close")

\* A cellphone that waits for a payload takes whatever comes for it. A
\* command is a short packet, which ends the data phase too early.
Device ==
    /\ outq # <<>>
    /\ outq' = Tail(outq)
    /\ LET w == Head(outq) IN
       \/ /\ devWaits # NoId
          /\ devWaits' = NoId
          /\ inq' = Append(inq, Response(IF w.op = "payload" THEN "OK" ELSE "INCOMPLETE", devWaits))
          /\ UNCHANGED <<devOpen, faults>>
       \/ /\ devWaits = NoId
          /\ devOpen' = OpenAfter(w)
          /\ devWaits' = IF w.op = "Send" /\ devOpen THEN w.id ELSE NoId
          /\ inq' = inq \o AnswerTo(w)
          /\ UNCHANGED faults
       \/ /\ Fault("lost")
          /\ devWaits' = NoId
          /\ devOpen' \in {devOpen, OpenAfter(w)}
          /\ UNCHANGED inq
    /\ UNCHANGED <<stage, phase, host, sent, uses, programs, paired, clean>>

-----------------------------------------------------------------------------
(* What follows a call.  Each operator says where the program goes, and    *)
(* what is left in the endpoint the host reads, of which q was unread.     *)

Enter(s, q) == stage' = s /\ phase' = "write" /\ inq' = q

\* drain reads and drops what the cellphone holds at that moment.
MutDrained(q) == q
Drained(q) == <<>>

\* The repair of open_session_or_repair starts with a close.
MutRepair == "reopen"
Repair == "repair"

\* Mtp::open takes another try after a transport error, and no other.
MutAfterDrop == IF why = "retry" /\ attempt <= Attempts THEN "start"
                ELSE IF why = "unmount" THEN "ended" ELSE "failed"
AfterDrop == IF why = "retry" /\ attempt < Attempts THEN "start"
             ELSE IF why = "unmount" THEN "ended" ELSE "failed"

\* The program lets go of Mtp: after an error of open_once, and at the end of
\* the mount. Drop for Mtp closes first, on the endpoints as they are.
LetGo(reason, q) ==
    /\ why' = reason
    /\ Enter("close", q)
    /\ UNCHANGED <<attempt, asked>>

\* Drop for Mtp is done. Drop for Session drains and closes again when the
\* first close did not succeed.
Dropped(open, q) ==
    /\ IF stage = "close" /\ open
       THEN Enter("reclose", Drained(q)) /\ UNCHANGED attempt
       ELSE Enter(AfterDrop, q) /\ attempt' = attempt + 1
    /\ UNCHANGED <<asked, why>>

Continue(s, q) == Enter(s, q) /\ UNCHANGED <<attempt, asked, why>>

\* A call without an outcome: a transfer failed, or passed its deadline, or a
\* container of the wrong kind came.
Failed(q) ==
    /\ clean' = FALSE
    /\ UNCHANGED session
    /\ \/ stage = "repair" /\ Continue("reopen", Drained(q))
       \/ stage \in Opens \ {"repair"} /\ LetGo("retry", q)
       \/ stage \in Uses /\ Continue("ready", q)
       \/ stage \in Drops /\ Dropped(session, q)

\* The host's idea of the session after a response: open_session takes OK and
\* "already open", close_session takes OK.
SessionAfter(code) ==
    CASE OpOf(stage) = "Open" -> session \/ code \in {"OK", "ALREADY_OPEN"}
      [] OpOf(stage) = "Close" -> session /\ code # "OK"
      [] OTHER -> session

\* first_storage: the list names a storage, or is empty and is asked for again.
FirstStorage(q) ==
    \/ phase = "second" /\ Continue("ready", q)
    \/ /\ asked + 1 < StorageTries
       /\ Enter("storage", q) /\ asked' = asked + 1
       /\ UNCHANGED <<attempt, why>>
    \/ asked + 1 >= StorageTries /\ LetGo("nostorage", q)

\* A call that ends with a response, with a data phase before it (phase
\* "second") or without.
Outcome(code, q) ==
    /\ session' = SessionAfter(code)
    /\ \/ stage = "open" /\ code = "ALREADY_OPEN" /\ Continue(Repair, q)
       \/ stage \in {"open", "reopen"} /\ code = "OK" /\ Continue("info", q)
       \/ stage = "open" /\ code \notin {"OK", "ALREADY_OPEN"} /\ LetGo("device", q)
       \/ stage \in {"reopen", "info", "storage"} /\ code # "OK" /\ LetGo("device", q)
       \/ stage = "repair" /\ Continue("reopen", Drained(q))
       \/ stage = "info" /\ code = "OK" /\ phase = "second" /\ Continue("storage", q)
       \/ /\ stage = "info" /\ code = "OK"     \* no DeviceInfo, or one that does not parse
          /\ phase = "first" \/ ~paired'
          /\ LetGo("device", q)
       \/ stage = "storage" /\ code = "OK" /\ FirstStorage(q)
       \/ stage \in Uses /\ Continue("ready", q)
       \/ stage \in Drops /\ Dropped(session', q)

-----------------------------------------------------------------------------
(* The transfers of a call.                                                *)

\* The command of the call. A write that fails leaves the cellphone as it was.
WriteCommand ==
    /\ stage \in Calls /\ phase = "write"
    /\ \/ /\ sent' = sent + 1
          /\ outq' = Append(outq, [op |-> OpOf(stage), id |-> sent + 1])
          /\ phase' = IF stage = "send" THEN "payload" ELSE "first"
          /\ UNCHANGED <<inq, stage, host, faults, clean>>
       \/ /\ Fault("write")
          /\ Failed(inq)
          /\ UNCHANGED <<outq, sent>>
    /\ UNCHANGED <<device, uses, programs, paired>>

\* The payload of a send. When the reader comes up short, or the write fails,
\* the cellphone is left with a data phase that does not end.
WritePayload ==
    /\ stage \in Calls /\ phase = "payload"
    /\ \/ /\ outq' = Append(outq, [op |-> "payload", id |-> sent])
          /\ phase' = "first"
          /\ UNCHANGED <<inq, stage, host, faults, clean>>
       \/ /\ Fault("write") \/ Fault("short")
          /\ Failed(inq)
          /\ UNCHANGED outq
    /\ UNCHANGED <<device, sent, uses, programs, paired>>

\* The first container of an answer: a data phase, or the response itself.
ReadFirst ==
    /\ stage \in Calls /\ phase = "first" /\ inq # <<>>
    /\ paired' = (paired /\ Head(inq).id = sent)
    /\ \/ /\ Head(inq).kind = "data"
          /\ phase' = "second" /\ inq' = Tail(inq)
          /\ UNCHANGED <<stage, host, clean>>
       \/ /\ Head(inq).kind = "response"
          /\ Outcome(Head(inq).code, Tail(inq))
          /\ UNCHANGED clean
    /\ UNCHANGED <<device, outq, bounds>>

\* The response behind a data phase.
ReadSecond ==
    /\ stage \in Calls /\ phase = "second" /\ inq # <<>>
    /\ paired' = (paired /\ Head(inq).id = sent)
    /\ \/ Head(inq).kind = "data" /\ Failed(Tail(inq))
       \/ /\ Head(inq).kind = "response"
          /\ Outcome(Head(inq).code, Tail(inq))
          /\ UNCHANGED clean
    /\ UNCHANGED <<device, outq, bounds>>

\* A read passes its deadline: no answer is on its way, or it takes too long.
MutExpires == outq = <<>>
Expires == outq = <<>> \/ "late" \in Faults

TimeOut ==
    /\ stage \in Calls /\ phase \in {"first", "second"} /\ inq = <<>>
    /\ Expires
    /\ Failed(inq)
    /\ UNCHANGED <<device, outq, bounds, paired>>

-----------------------------------------------------------------------------
(* The life of a program.                                                  *)

\* Session::new of one attempt: the endpoints are cleared and drained.
NewSession ==
    /\ stage = "start"
    /\ Enter("open", Drained(inq))
    /\ session' = FALSE /\ asked' = 0
    /\ clean' = Quiet /\ paired' = TRUE
    /\ UNCHANGED <<device, outq, attempt, why, bounds>>

\* The kernel asks for a file operation. Its error goes to the kernel, and
\* the mount goes on with the session as it is.
Use ==
    /\ stage = "ready" /\ uses < MaxUses
    /\ \E call \in Uses: stage' = call
    /\ phase' = "write"
    /\ uses' = uses + 1
    /\ UNCHANGED <<device, outq, inq, host, sent, faults, programs, paired, clean>>

\* The mount ends, and main drops the filesystem before the program ends.
MutUnmount ==
    /\ stage = "ready"
    /\ Enter("ended", inq)
    /\ UNCHANGED <<device, outq, host, bounds, paired, clean>>
Unmount ==
    /\ stage = "ready"
    /\ LetGo("unmount", inq)
    /\ UNCHANGED <<device, outq, session, bounds, paired, clean>>

\* A program dies, and nothing of its drop runs.
Crash ==
    /\ stage \in Calls \cup {"start", "ready"}
    /\ Fault("crash")
    /\ Enter("dead", inq)
    /\ clean' = FALSE
    /\ UNCHANGED <<device, outq, host, sent, uses, programs, paired>>

\* The next program starts on the same cellphone.
StartProgram ==
    /\ stage \in {"ended", "failed", "dead"} /\ programs < MaxPrograms
    /\ Enter("start", inq)
    /\ programs' = programs + 1
    /\ attempt' = 1
    /\ UNCHANGED <<device, outq, session, asked, why, sent, uses, faults, paired, clean>>

Init ==
    /\ devOpen = FALSE /\ devWaits = NoId
    /\ outq = <<>> /\ inq = <<>>
    /\ stage = "start" /\ phase = "write"
    /\ session = FALSE /\ attempt = 1 /\ asked = 0 /\ why = "retry"
    /\ sent = 0 /\ uses = 0 /\ faults = 0 /\ programs = 1
    /\ paired = TRUE /\ clean = FALSE

\* The steps a program takes by itself, without the kernel and the user.
Program == NewSession \/ WriteCommand \/ WritePayload \/ ReadFirst \/ ReadSecond \/ TimeOut

Next == Program \/ Device \/ Use \/ Unmount \/ Crash \/ StartProgram

\* The program runs on. Nothing is assumed of the cellphone.
Spec == Init /\ [][Next]_vars /\ WF_vars(Program)

-----------------------------------------------------------------------------
(* Properties.                                                             *)

\* The variables hold values of their kind.
TypeOK ==
    /\ devOpen \in BOOLEAN /\ devWaits \in Nat
    /\ outq \in Seq(Written) /\ inq \in Seq(Answers)
    /\ stage \in Calls \cup Rests \cup {"start"} /\ phase \in Phases
    /\ session \in BOOLEAN /\ attempt \in 1..(Attempts + 1) /\ asked \in 0..(StorageTries - 1)
    /\ why \in {"retry", "device", "nostorage", "unmount"}
    /\ sent \in Nat /\ uses \in 0..MaxUses /\ faults \in 0..MaxFaults
    /\ programs \in 1..MaxPrograms
    /\ paired \in BOOLEAN /\ clean \in BOOLEAN

\* A mount that is ready for the next file operation has given no answer of
\* one command to another. (Container.transaction_id, "which pairs a response
\* with its command"; read_answer.)
AnswerIsForCommand == stage = "ready" => paired

\* While nothing has failed since a session started on a cellphone with no
\* transfer on its way, every answer belongs to its command, whatever an
\* earlier program left in the endpoint. (recover in Session::new.)
Paired == clean => paired

\* A session that an earlier program left open, wherever it died, does not
\* stop the next one: a mount that starts on a quiet cellphone and meets no
\* fault fails only for want of a storage. (open_session_or_repair.)
OpensAfterAnyone == stage = "failed" /\ clean => why = "nostorage"

\* A mount that met no fault leaves no session open on the cellphone, and
\* every answer read. (Drop for Mtp and Session.)
EndedIsClosed == stage = "ended" /\ clean => ~devOpen /\ ~session /\ inq = <<>>

\* Every call ends, and so does every try to open, with the cellphone at work
\* or silent for ever: the deadlines of the reads and the limits of the loops
\* are enough. (Rule 2 of docs/00-why.md; Mtp::open.)
CallsEnd == stage \notin Rests ~> stage \in Rests
=============================================================================

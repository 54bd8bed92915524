--------------------------- MODULE FlightRecorder ---------------------------
(***************************************************************************)
(* The flight recorder (flight.rs) and the volume that writes to it: a     *)
(* ring of events with identities that are never used twice, the spans of  *)
(* nested calls, and the window an event belongs to.  A provider that      *)
(* panics unwinds through the running calls.                               *)
(***************************************************************************)
EXTENDS Integers, Sequences

CONSTANTS
    MaxId,          \* u64::MAX
    Capacity,       \* events the ring holds
    Selections,     \* categories a consumer may select
    MaxDepth,       \* bound: nested calls
    MaxLogged,      \* bound: log records of one window
    MaxWindows      \* bound: windows opened

VARIABLES
    flight,         \* the installed recorder, or NoRecorder
    removed,        \* one that was taken out and is kept, or NoRecorder
    running,        \* the contexts of the running calls, innermost last
    unwinding,
    engine          \* the volume's window and whether it is poisoned

flight_vars == <<flight, removed, running, unwinding, engine>>

Category(kind) ==
    CASE kind \in {"api_begin", "api_end"} -> "api"
      [] kind \in {"transaction", "detail"} -> kind
      [] OTHER -> "window"

NoContext == [operation |-> 0, span |-> 0, parent_span |-> 0]
Untraced == [operation |-> -1, span |-> -1, parent_span |-> -1]

(* The ring holds the identities of its events.  gone counts those that    *)
(* left it or never entered it: dropped, filtered and drained events.      *)
(* number is the window of the engine that is observed.                    *)
Fresh ==
    [events |-> <<>>, sequence |-> 0, gone |-> 0,
     categories |-> {"api", "window", "transaction", "detail"}, api_enabled |-> FALSE,
     api_next |-> 0, api_context |-> NoContext, api_exhausted |-> FALSE,
     window_next |-> 0, window |-> 0, log |-> 0, window_exhausted |-> FALSE, number |-> 0]
NoRecorder == [Fresh EXCEPT !.categories = {}]

SaturatingAdd(n) == IF n < MaxId THEN n + 1 ELSE n

-----------------------------------------------------------------------------
(* Emission.  The attempt an event of a commit belongs to is counted like  *)
(* the sequence, and cannot run out before it.                             *)

Refuse(r) == [r EXCEPT !.gone = SaturatingAdd(@), !.sequence = MaxId]

Record(r) ==
    LET full == Len(r.events) = Capacity IN
    [r EXCEPT !.events = Append(IF full THEN Tail(@) ELSE @, r.sequence),
              !.gone = IF full THEN SaturatingAdd(@) ELSE @]

Emit(r, kind) ==
    LET next == [r EXCEPT !.sequence = @ + 1] IN
    IF r.api_exhausted \/ r.window_exhausted \/ r.sequence = MaxId THEN Refuse(r)
    ELSE IF Category(kind) \notin r.categories THEN [next EXCEPT !.gone = SaturatingAdd(@)]
    ELSE Record(next)

(* An event of the window.  An attempted group is named by its own event;  *)
(* only a durable one stays.                                               *)
WindowEvent(r, kind, group) ==
    LET sent == [Emit(r, kind) EXCEPT !.log = IF kind = "log_durable" THEN group ELSE @] IN
    IF ~r.api_enabled \/ r.window = 0 THEN r
    ELSE IF kind \in {"closed", "detached"} THEN [sent EXCEPT !.window = 0, !.log = 0]
    ELSE sent

(* Mutant: a fresh window keeps an observation that was interrupted.       *)
Inherits(r, attached, now) ==
    IF ~r.api_enabled \/ r.window /= 0 THEN r
    ELSE Emit([r EXCEPT !.window_next = @ + 1, !.window = @ + 1, !.log = now.durable,
                        !.number = now.number],
              IF attached THEN "attached" ELSE "opened")

ObserveWindow(r, attached, now) ==
    LET clear == WindowEvent(r, "detached", 0) IN
    IF ~r.api_enabled \/ (r.window /= 0 /\ attached) THEN r
    ELSE IF clear.window_next = MaxId \/ clear.window_exhausted
    THEN [clear EXCEPT !.window_exhausted = TRUE, !.gone = SaturatingAdd(@)]
    ELSE Emit([clear EXCEPT !.window_next = @ + 1, !.window = r.window_next + 1,
                            !.log = now.durable, !.number = now.number],
              IF attached THEN "attached" ELSE "opened")

-----------------------------------------------------------------------------
(* The volume's side.  engine.held says where its window is: in the        *)
(* volume, with the call at depth by that works on it, or nowhere.         *)

InVolume == engine.held = "open"
Innermost == running /= <<>> /\ ~unwinding
Mine == engine.by = Len(running)

(* What an emission makes of the installed recorder.                       *)
Tell(after) == flight' = IF flight = NoRecorder THEN flight ELSE after

Attached ==
    IF InVolume THEN ObserveWindow(flight, TRUE, engine) ELSE flight

(* trace_api: the window is observed, then the call gets a span.           *)
BeginApi(r) ==
    LET span == r.api_next + 1
        context == [operation |-> IF r.api_context.span = 0 THEN span ELSE r.api_context.operation,
                    span |-> span, parent_span |-> r.api_context.span]
    IN  IF ~r.api_enabled THEN [recorder |-> r, context |-> Untraced]
        ELSE IF r.api_next = MaxId \/ r.api_exhausted
        THEN [recorder |-> [r EXCEPT !.api_exhausted = TRUE, !.gone = SaturatingAdd(@)],
              context |-> Untraced]
        ELSE [recorder |-> Emit([r EXCEPT !.api_next = span, !.api_context = context],
                                "api_begin"),
              context |-> context]

BeginCall ==
    /\ ~unwinding /\ Len(running) < MaxDepth
    /\ LET begun == BeginApi(Attached) IN
       IF flight = NoRecorder THEN running' = Append(running, Untraced) /\ flight' = flight
       ELSE running' = Append(running, begun.context) /\ flight' = begun.recorder
    /\ UNCHANGED <<removed, unwinding, engine>>

(* The context before a call is that of the innermost traced call outside. *)
Previous ==
    LET outer == SelectSeq(SubSeq(running, 1, Len(running) - 1), LAMBDA c : c /= Untraced) IN
    IF outer = <<>> THEN NoContext ELSE outer[Len(outer)]

EndApi(r, token) ==
    IF r.api_context /= token THEN [r EXCEPT !.gone = SaturatingAdd(@)]
    ELSE [Emit(r, "api_end") EXCEPT !.api_context = Previous]

(* The guard's drop.  A call that has the window gives it back first; one  *)
(* that unwinds loses it.                                                  *)
EndCall ==
    /\ running /= <<>>
    /\ Mine => engine.held = "open" \/ unwinding
    /\ LET token == running[Len(running)] IN
       IF flight = NoRecorder \/ token = Untraced THEN flight' = flight
       ELSE flight' = EndApi(flight, token)
    /\ running' = SubSeq(running, 1, Len(running) - 1)
    /\ unwinding' = (unwinding /\ Len(running) > 1)
    /\ UNCHANGED <<removed, engine>>

(* A provider panics.  A window that a call took out of the volume is lost,*)
(* without an event.                                                       *)
Panic ==
    /\ Innermost
    /\ unwinding' = TRUE
    /\ engine' = [engine EXCEPT !.held = IF @ \in {"taken", "publishing"} THEN "none"
                                         ELSE IF @ = "logging" THEN "open" ELSE @,
                                !.by = 0]
    /\ UNCHANGED <<flight, removed, running>>

-----------------------------------------------------------------------------
(* Windows. *)

TakeOrOpenWindow ==
    /\ Innermost /\ ~engine.poisoned
    /\ \/ /\ InVolume
          /\ engine' = [engine EXCEPT !.held = "taken", !.by = Len(running)]
          /\ Tell(Attached)
       \/ /\ engine.held = "none" /\ engine.number < MaxWindows
          /\ engine' = [engine EXCEPT !.held = "taken", !.by = Len(running),
                                      !.number = @ + 1, !.durable = 0]
          /\ Tell(ObserveWindow(flight, FALSE, engine'))
    /\ UNCHANGED <<removed, running, unwinding>>

PutBack ==
    /\ Innermost /\ Mine /\ engine.held = "taken"
    /\ engine' = [engine EXCEPT !.held = "open", !.by = 0]
    /\ UNCHANGED <<flight, removed, running, unwinding>>

WindowGone(poisoned) ==
    /\ engine' = [engine EXCEPT !.held = "none", !.by = 0, !.poisoned = poisoned]
    /\ LET failed == WindowEvent(flight, "failed", 0) IN
       Tell(WindowEvent(IF poisoned THEN failed ELSE flight, "closed", 0))
    /\ UNCHANGED <<removed, running, unwinding>>

(* The operation failed after it changed the window.                       *)
WindowOpFails == Innermost /\ Mine /\ engine.held = "taken" /\ WindowGone(TRUE)

(* window_fsync: the barrier fails, or the record is written.              *)
FsyncBarrierFails ==
    /\ Innermost /\ InVolume /\ ~engine.poisoned
    /\ engine' = [engine EXCEPT !.poisoned = TRUE]
    /\ Tell(WindowEvent(Attached, "failed", 0))
    /\ UNCHANGED <<removed, running, unwinding>>

FsyncBegin ==
    /\ Innermost /\ InVolume /\ ~engine.poisoned /\ engine.durable < MaxLogged
    /\ engine' = [engine EXCEPT !.held = "logging", !.by = Len(running)]
    /\ Tell(WindowEvent(Attached, "log_begin", engine.durable + 1))
    /\ UNCHANGED <<removed, running, unwinding>>

FsyncEnd ==
    /\ Innermost /\ Mine /\ engine.held = "logging"
    /\ \E durable \in BOOLEAN :
          LET group == engine.durable + 1 IN
          /\ engine' = [engine EXCEPT !.held = "open", !.by = 0, !.poisoned = ~durable,
                                      !.durable = IF durable THEN group ELSE @]
          /\ Tell(WindowEvent(flight, IF durable THEN "log_durable" ELSE "log_failed", group))
    /\ UNCHANGED <<removed, running, unwinding>>

WindowCommit ==
    /\ Innermost /\ InVolume /\ ~engine.poisoned
    /\ engine' = [engine EXCEPT !.held = "publishing", !.by = Len(running)]
    /\ Tell(Attached)
    /\ UNCHANGED <<removed, running, unwinding>>

WindowCommitEnds ==
    /\ Innermost /\ Mine /\ engine.held = "publishing"
    /\ WindowGone(FALSE) \/ WindowGone(TRUE)

WindowDiscard ==
    /\ Innermost
    /\ \/ InVolume /\ WindowGone(FALSE)
       \/ /\ engine.held = "none" /\ engine.poisoned
          /\ engine' = [engine EXCEPT !.poisoned = FALSE]
          /\ UNCHANGED <<flight, removed, running, unwinding>>

(* The commit tail of any operation, and the events of allocator, trees,   *)
(* reclaim, objects, data and views, which a consumer asks for.            *)
Observe ==
    /\ Innermost /\ flight /= NoRecorder
    /\ \E kind \in {"transaction", "detail"} :
          /\ kind = "detail" => flight.api_enabled
          /\ flight' = Emit(flight, kind)
    /\ UNCHANGED <<removed, running, unwinding, engine>>

-----------------------------------------------------------------------------
(* The host, between calls. *)

(* replace_flight_recorder.                                                *)
ReplaceFlightRecorder ==
    /\ running = <<>>
    /\ \E next \in {Fresh, removed, NoRecorder} :
          LET detached == WindowEvent(flight, "detached", 0) IN
          /\ next = NoRecorder \/ flight = NoRecorder
          /\ removed' = IF flight = NoRecorder THEN NoRecorder ELSE detached
          /\ flight' = IF InVolume /\ next /= NoRecorder
                       THEN ObserveWindow(next, TRUE, engine) ELSE next
    /\ UNCHANGED <<running, unwinding, engine>>

Configure(r) == running = <<>> /\ flight /= NoRecorder /\ flight' = r /\ flight' /= flight
                  /\ UNCHANGED <<removed, running, unwinding, engine>>

Enable == Configure([flight EXCEPT !.api_enabled = TRUE])
SetCategories == \E selection \in Selections : Configure([flight EXCEPT !.categories = selection])
Drain == Configure([flight EXCEPT !.events = <<>>, !.gone = @ + Len(flight.events)])

-----------------------------------------------------------------------------

FlightInit ==
    /\ flight = NoRecorder /\ removed = NoRecorder
    /\ running = <<>> /\ unwinding = FALSE
    /\ engine = [held |-> "none", by |-> 0, number |-> 0, durable |-> 0, poisoned |-> FALSE]

FlightNext ==
    \/ BeginCall \/ EndCall \/ Panic
    \/ TakeOrOpenWindow \/ PutBack \/ WindowOpFails
    \/ FsyncBarrierFails \/ FsyncBegin \/ FsyncEnd
    \/ WindowCommit \/ WindowCommitEnds \/ WindowDiscard \/ Observe
    \/ ReplaceFlightRecorder \/ Enable \/ SetCategories \/ Drain

FlightSpec == FlightInit /\ [][FlightNext]_flight_vars

-----------------------------------------------------------------------------
(* Properties. *)

(* Until identifiers run out, an identity that was given out is filtered,  *)
(* overwritten, taken or in the ring.                                      *)
Accounted(r) ==
    r.sequence < MaxId /\ ~r.api_exhausted /\ ~r.window_exhausted =>
        r.sequence = r.gone + Len(r.events)

(* The ring is within its capacity and in the order of the identities.     *)
Ordered(r) ==
    /\ Len(r.events) <= Capacity
    /\ \A i \in DOMAIN r.events :
          /\ r.events[i] <= r.sequence
          /\ i > 1 => r.events[i - 1] < r.events[i]

(* The window and the log record that the next event names are those of    *)
(* the engine.                                                             *)
Attributed(r) == r.window /= 0 => r.number = engine.number /\ r.log = engine.durable

(* The context is that of the innermost traced call.                       *)
InContext ==
    LET traced == SelectSeq(running, LAMBDA c : c /= Untraced) IN
    /\ flight.api_context = IF traced = <<>> THEN NoContext ELSE traced[Len(traced)]
    /\ \A i \in DOMAIN traced :
          /\ traced[i].operation = traced[1].span
          /\ traced[i].parent_span = IF i = 1 THEN 0 ELSE traced[i - 1].span
          /\ i > 1 => traced[i - 1].span < traced[i].span

(* However calls nest, fail or unwind, and whenever recorders are swapped: *)
(* the trace accounts for every event, attributes each to the call and the *)
(* window it happened in, and never claims a log record that was not       *)
(* durable (emit_context, observe_window, end_api).                        *)
TraceSound ==
    /\ \A r \in {flight, removed} : Accounted(r) /\ Ordered(r) /\ Attributed(r)
    /\ flight /= NoRecorder => InContext
=============================================================================

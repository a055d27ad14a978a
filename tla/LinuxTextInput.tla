--------------------------- MODULE LinuxTextInput ---------------------------
(***************************************************************************)
(* Committed text on the Linux host (linux/linux_text_input.cc): to insert *)
(* text, the plugin makes its own IBus engine the global one for a moment, *)
(* commits the text through it and puts the user's engine back.  All of it *)
(* runs on the GLib main context as chains of asynchronous D-Bus calls,    *)
(* each with a time limit that does not withdraw the request; the user may *)
(* move the focus or switch the input method meanwhile.                    *)
(*                                                                         *)
(* A call in flight carries the continuation k that waits for its reply,   *)
(* "none" once that continuation has been run.  focus_revision_ and        *)
(* prepared_focus_ are only compared with each other: fresh is whether     *)
(* they are equal.  The IBus daemon and the user are external.             *)
(***************************************************************************)
EXTENDS Naturals, Sequences, SequencesExt, FiniteSets

CONSTANTS
  Engines,    \* the user's input methods
  Contexts,   \* input contexts of applications
  MaxOps,     \* bound on method calls that begin something
  MaxUser,    \* bound on focus moves and input-method switches
  MaxFaults   \* bound on timeouts, failed calls and lost connections

Ours == "cloudplayplus"            \* name_
Fake == "InputContext_1"           \* the daemon's reserved context
None == "none"                     \* no reply, no engine, no continuation

ASSUME TextInputAssumption ==
  /\ Engines # {} /\ Contexts # {}
  /\ {Ours, None} \cap Engines = {} /\ {Fake, None} \cap Contexts = {}
  /\ MaxOps \in Nat /\ MaxUser \in Nat /\ MaxFaults \in Nat

VARIABLES
  b,          \* the Backend: see Backend below
  in,         \* what the daemon sent and GLib has not dispatched, oldest first
  global, ctx, engine_id,
              \* the daemon: global engine, focused context, id of the last
              \* engine it had created
  chosen,     \* the input method the user chose last
  raced,      \* the user switched while a reply or request about it was in flight
  ops, users, faults

daemon == <<global, ctx, engine_id>>
ghosts == <<chosen, raced>>
textVars == <<b, in, daemon, ghosts, ops, users, faults>>

TextInit ==
  /\ b = [ready |-> FALSE, initializing |-> FALSE, busy |-> FALSE, waiters |-> <<>>,
          engine |-> 0, focused |-> FALSE, previous |-> None, context |-> None,
          token |-> 0, next_token |-> 0, fresh |-> FALSE,
          up |-> FALSE,        \* ibus_bus_is_connected(bus_)
          out |-> <<>>,        \* requests the daemon has not taken yet
          gaveUp |-> FALSE]    \* a restore failed while our engine was focused
  /\ in = <<>>
  /\ global \in Engines /\ ctx \in Contexts \cup {Fake} /\ engine_id = 0
  /\ chosen = global /\ raced = FALSE
  /\ ops = 0 /\ users = 0 /\ faults = 0

Msg(k, method, arg) == [k |-> k, method |-> method, arg |-> arg]

\* The places W of a queue in their order, as a set of the one sequence of them.
InOrder(W) == {o \in [1 .. Cardinality(W) -> W] : \A i, j \in DOMAIN o : i < j => o[i] < o[j]}

----------------------------------------------------------------------------
(* The Backend's code as functions of its state s.                         *)

\* Backend::call; on a closed connection the continuation runs at once, with no
\* reply, and failed is what it does.
call(s, k, method, arg, failed) ==
  IF s.up THEN [s EXCEPT !.out = Append(@, Msg(k, method, arg))] ELSE failed

\* A restore ends without an answer.
restoreFails(s) ==
  [s EXCEPT !.busy = FALSE, !.ready = FALSE, !.gaveUp = @ \/ (s.engine # 0 /\ s.focused)]

\* restore and the continuations of its two calls.
restore(s) == call(s, "rget", "get", None, restoreFails(s))

\* Mutant: the previous engine is set whatever the global one is.
onRestoreGetBlindly(s, name) ==
  IF name = None THEN restoreFails(s) ELSE call(s, "rset", "set", s.previous, restoreFails(s))

onRestoreGet(s, name) ==
  IF name = Ours THEN call(s, "rset", "set", s.previous, restoreFails(s))
  ELSE IF name = None THEN restoreFails(s) ELSE [s EXCEPT !.busy = FALSE]

onRestoreSet(s, reply) == IF reply = None THEN restoreFails(s) ELSE [s EXCEPT !.busy = FALSE]

\* prepare, up to its first call.  auto: performTextInput, which goes on to
\* finish by itself.
prepare(s, auto) ==
  IF s.ready /\ ~s.busy /\ s.up
    THEN call([s EXCEPT !.busy = TRUE], IF auto THEN "ctxAuto" ELSE "ctx", "context", None, s)
    ELSE s

Step(k, auto) ==
  IF auto THEN [get |-> "getAuto", set |-> "setAuto", again |-> "againAuto"][k] ELSE k
Unprepared(s) == [s EXCEPT !.busy = FALSE]

onContext(s, path, auto) ==
  IF path \in {None, Fake} THEN Unprepared(s)
  ELSE LET t == [s EXCEPT !.context = path]
       IN  call(t, Step("get", auto), "get", None, Unprepared(t))

onEngine(s, name, auto) ==
  IF name \in {None, Ours} THEN Unprepared(s)
  ELSE LET t == [s EXCEPT !.previous = name]
       IN  call(t, Step("set", auto), "set", Ours, restore(t))

onSelected(s, reply, auto) ==
  IF reply = None THEN restore(s) ELSE call(s, Step("again", auto), "context", None, restore(s))

active(s) == s.engine # 0 /\ s.focused /\ s.fresh /\ s.up

\* finish: the token is used up; text that is valid goes to the focused engine,
\* behind its backspaces; the engine is given back in any case.
finish(s, t, valid) ==
  IF t = 0 \/ t # s.token THEN s
  ELSE LET u == [s EXCEPT !.token = 0]
       IN  restore(IF valid /\ active(u) THEN call(u, None, "commit", s.engine, u) ELSE u)

\* The last step of prepare: same context, engine in place and focused.
onContextAgain(s, path, auto) ==
  IF path # s.context \/ s.engine = 0 \/ ~s.focused THEN restore(s)
  ELSE LET t == [s EXCEPT !.next_token = @ + 1, !.token = s.next_token + 1, !.fresh = TRUE]
       IN  IF auto THEN finish(t, t.token, TRUE) ELSE t

\* Mutant: the waiters are called and kept.
initializedKeepsWaiters(s, ok) ==
  LET t == [s EXCEPT !.ready = ok, !.initializing = FALSE]
  IN  IF ok /\ Contains(s.waiters, TRUE) THEN prepare(t, TRUE) ELSE t

\* initialized: of the performTextInput calls that waited, the first can begin.
initialized(s, ok) ==
  LET t == [s EXCEPT !.ready = ok, !.initializing = FALSE, !.waiters = <<>>]
  IN  IF ok /\ Contains(s.waiters, TRUE) THEN prepare(t, TRUE) ELSE t

\* The continuation k of a call, with its reply.
continue(s, k, v) ==
  CASE k \in {"ctx", "ctxAuto"}     -> onContext(s, v, k = "ctxAuto")
    [] k \in {"get", "getAuto"}     -> onEngine(s, v, k = "getAuto")
    [] k \in {"set", "setAuto"}     -> onSelected(s, v, k = "setAuto")
    [] k \in {"again", "againAuto"} -> onContextAgain(s, v, k = "againAuto")
    [] k = "rget"                   -> onRestoreGet(s, v)
    [] k = "rset"                   -> onRestoreSet(s, v)
    [] k = "register"               -> initialized(s, v # None)
    [] k = None                     -> s

\* Mutant: a late activation is not undone.
focusInOnly(s, e) == IF s.engine # e THEN s ELSE [s EXCEPT !.focused = TRUE, !.fresh = FALSE]

\* Mutant: the late restore does not claim the backend.
focusInUnclaimed(s, e) ==
  IF s.engine # e THEN s
  ELSE LET t == [s EXCEPT !.focused = TRUE, !.fresh = FALSE]
       IN  IF ~s.busy /\ s.previous # None THEN restore(t) ELSE t

\* focus-in; an activation nobody waits for any more is undone.
focusIn(s, e) ==
  IF s.engine # e THEN s
  ELSE LET t == [s EXCEPT !.focused = TRUE, !.fresh = FALSE]
       IN  IF ~s.busy /\ s.previous # None THEN restore([t EXCEPT !.busy = TRUE]) ELSE t

\* focus-out and disable.
focusOut(s, e) == IF s.engine # e THEN s ELSE [s EXCEPT !.focused = FALSE, !.fresh = FALSE]

\* The signals of the bus, the factory and the engine.
signal(s, m) ==
  CASE m.method = "disconnected" -> [s EXCEPT !.ready = FALSE]
    [] m.method = "create"       -> [s EXCEPT !.engine = m.arg, !.focused = FALSE]
    [] m.method = "focus-in"     -> focusIn(s, m.arg)
    [] m.method = "focus-out"    -> focusOut(s, m.arg)
    [] m.method = "destroy"      -> IF s.engine # m.arg THEN s
                                    ELSE [s EXCEPT !.engine = 0, !.focused = FALSE]

----------------------------------------------------------------------------
(* The GLib main context.                                                  *)

Op == ops < MaxOps /\ ops' = ops + 1 /\ UNCHANGED <<users, faults>>

prepareLinuxTextInput ==
  /\ Op
  /\ b' = prepare(b, FALSE)
  /\ UNCHANGED <<in, daemon, ghosts>>

finishLinuxTextInput ==
  /\ Op
  /\ \E t \in 1 .. b.next_token, valid \in BOOLEAN : b' = finish(b, t, valid)
  /\ UNCHANGED <<in, daemon, ghosts>>

works(s) == ~s.initializing /\ s.ready /\ s.up

\* available, where it answers at once or joins an initialisation: a
\* performTextInput goes on to prepare.
AvailableAnswers(auto) ==
  /\ works(b) \/ b.busy \/ b.initializing
  /\ b' = IF works(b) THEN (IF auto THEN prepare(b, TRUE) ELSE b)
          ELSE IF b.busy THEN b ELSE [b EXCEPT !.waiters = Append(@, auto)]
  /\ UNCHANGED <<in, daemon, ghosts>>

\* Requests to select an engine of the user's.
UserSets(q) == {i \in DOMAIN q : q[i].method = "set" /\ q[i].arg # Ours}

\* available, where it connects anew: the factory and the engine go with the old
\* connection, which the daemon notices; an old request to select the user's
\* engine may still be carried out.
Initialize(auto) ==
  /\ ~works(b) /\ ~b.busy /\ ~b.initializing
  /\ \E connected \in BOOLEAN, o \in InOrder({}) \cup InOrder(UserSets(b.out)) :
       LET t == [b EXCEPT !.engine = 0, !.focused = FALSE, !.ready = FALSE, !.up = connected,
                          !.waiters = <<auto>>, !.initializing = TRUE,
                          !.out = [i \in DOMAIN o |-> b.out[o[i]]]]
       IN  b' = call(t, "register", "register", None, initialized(t, FALSE))
  /\ in' = <<>>
  /\ global' = IF global = Ours THEN chosen ELSE global
  /\ UNCHANGED <<ctx, engine_id, ghosts>>

available == Op /\ \E auto \in BOOLEAN : AvailableAnswers(auto) \/ Initialize(auto)

\* The 1500 ms of a prepared transaction are over.
Expire ==
  /\ b.token # 0
  /\ b' = restore([b EXCEPT !.token = 0])
  /\ UNCHANGED <<in, daemon, ghosts, ops, users, faults>>

\* GLib dispatches a reply or a signal.
Dispatch ==
  /\ in # <<>>
  /\ in' = Tail(in)
  /\ b' = IF Head(in).method = "reply" THEN continue(b, Head(in).k, Head(in).arg)
                                       ELSE signal(b, Head(in))
  /\ UNCHANGED <<daemon, ghosts, ops, users, faults>>

----------------------------------------------------------------------------
(* The environment: daemon, user, failures.                                *)

Fault == faults < MaxFaults /\ faults' = faults + 1 /\ UNCHANGED <<ops, users>>

Reply(m, v) == <<Msg(m.k, "reply", v)>>
Signals(names, e) == [i \in DOMAIN names |-> Msg(None, names[i], e)]

\* Our engine, if it was the global one, learns that it no longer is.
Leave == IF global = Ours THEN Signals(<<"focus-out", "destroy">>, engine_id) ELSE <<>>

Select(m) ==
  IF m.arg = Ours
    THEN /\ global' = Ours /\ engine_id' = engine_id + 1
         /\ in' = in \o Signals(<<"create", "focus-in">>, engine_id + 1) \o Reply(m, Ours)
    ELSE /\ global' = m.arg /\ UNCHANGED engine_id
         /\ in' = in \o Leave \o Reply(m, m.arg)

\* The daemon carries out the oldest request.
DaemonServes ==
  /\ b.out # <<>>
  /\ b' = [b EXCEPT !.out = Tail(@)]
  /\ LET m == Head(b.out) IN
       \/ m.method = "set" /\ Select(m) /\ UNCHANGED ctx
       \/ m.method = "register" /\ in' = in \o Reply(m, Ours) /\ UNCHANGED daemon
       \/ m.method \in {"get", "context"}
          /\ in' = in \o Reply(m, IF m.method = "get" THEN global ELSE ctx) /\ UNCHANGED daemon
       \/ m.method = "commit" /\ UNCHANGED <<in, daemon>>
  /\ UNCHANGED <<ghosts, ops, users, faults>>

\* The daemon refuses a request.
DaemonRefuses ==
  /\ b.out # <<>> /\ Head(b.out).method # "commit" /\ Fault
  /\ b' = [b EXCEPT !.out = Tail(@)]
  /\ in' = in \o Reply(Head(b.out), None)
  /\ UNCHANGED <<daemon, ghosts>>

Waiting(q) == {i \in DOMAIN q : q[i].k # None}
Failures(q, o) == [i \in DOMAIN o |-> Msg(q[o[i]].k, "reply", None)]

\* A call times out; its request is still with the daemon.
CallTimesOut ==
  /\ Fault
  /\ \E i \in Waiting(b.out) :
       /\ in' = Append(in, Msg(b.out[i].k, "reply", None))
       /\ b' = [b EXCEPT !.out[i].k = None]
  /\ UNCHANGED <<daemon, ghosts>>

\* The daemon restarts: every call in flight fails.
Disconnect ==
  /\ b.up /\ Fault
  /\ b' = [b EXCEPT !.up = FALSE, !.out = <<>>]
  /\ \E o \in InOrder(Waiting(b.out)) :
       in' = Append(in, Msg(None, "disconnected", None)) \o Failures(b.out, o)
  /\ global' = chosen
  /\ UNCHANGED <<ctx, engine_id, ghosts>>

UserActs == users < MaxUser /\ users' = users + 1 /\ UNCHANGED <<ops, faults>>

\* The user picks an input method.  raced: the plugin has asked for, or is about
\* to replace, the engine the user had before.
SwitchEngine(e) ==
  /\ UserActs /\ e # global
  /\ global' = e /\ chosen' = e
  /\ raced' = (raced \/ (\E i \in DOMAIN b.out : b.out[i].method = "set")
                     \/ (\E i \in DOMAIN in : in[i].method = "reply" /\ in[i].k \in {"get", "getAuto", "rget"}))
  /\ in' = in \o Leave
  /\ UNCHANGED <<b, ctx, engine_id>>

MoveFocus(c) ==
  /\ UserActs /\ c # ctx
  /\ ctx' = c
  /\ in' = in \o (IF global = Ours THEN Signals(<<"focus-out", "focus-in">>, engine_id) ELSE <<>>)
  /\ UNCHANGED <<b, global, engine_id, ghosts>>

TextNext ==
  \/ prepareLinuxTextInput \/ finishLinuxTextInput \/ available
  \/ Expire \/ Dispatch \/ DaemonServes
  \/ DaemonRefuses \/ CallTimesOut \/ Disconnect
  \/ \E e \in Engines : SwitchEngine(e)
  \/ \E c \in Contexts \cup {Fake} : MoveFocus(c)

TextSpec == TextInit /\ [][TextNext]_textVars

\* The main context runs, the expiry timer fires, and the daemon, or in its
\* place the time limit of the call, answers.
TextFairSpec == TextSpec /\ WF_textVars(Dispatch) /\ WF_textVars(Expire) /\ WF_textVars(DaemonServes)

----------------------------------------------------------------------------
(* Properties.                                                             *)

TxnSteps == {"ctx", "ctxAuto", "get", "getAuto", "set", "setAuto", "again", "againAuto", "rget", "rset"}

\* Type correctness; callers only wait for an initialisation that is under way.
TextTypeOK ==
  /\ {b.ready, b.initializing, b.busy, b.focused, b.fresh, b.up, b.gaveUp} \subseteq BOOLEAN
  /\ b.engine \in 0 .. engine_id
  /\ b.previous \in Engines \cup {None} /\ b.context \in Contexts \cup {None}
  /\ b.token \in {0, b.next_token}
  /\ b.waiters \in Seq(BOOLEAN) /\ (b.waiters # <<>> => b.initializing)
  /\ \A i \in DOMAIN b.out : b.out[i].k \in TxnSteps \cup {"register", None}
  /\ global \in Engines \cup {Ours} /\ ctx \in Contexts \cup {Fake}

Steps(q, K) == Cardinality({i \in DOMAIN q : q[i].k \in K})
Owners(K) == Steps(b.out, K) + Steps(in, K)

\* busy_ has exactly one owner, a call whose continuation will clear it or a
\* token that will be finished or expire, whatever timed out, failed or was
\* activated late: transactions never overlap and busy_ never sticks.
BusyHasOneOwner ==
  /\ Owners(TxnSteps) + (IF b.token # 0 THEN 1 ELSE 0) = (IF b.busy THEN 1 ELSE 0)
  /\ Owners({"register"}) = (IF b.initializing THEN 1 ELSE 0)

FocusSignals == {"create", "focus-in", "focus-out", "destroy"}

\* What finish checks is enough: when all signals have been dispatched, a token
\* and an active engine mean that our engine is the global one in the context
\* that was prepared, so the text cannot land elsewhere.
ActiveMeansPrepared ==
  b.token # 0 /\ active(b) /\ (\A i \in DOMAIN in : in[i].method \notin FocusSignals)
    => global = Ours /\ ctx = b.context

\* The user's choice wins: unless the user switched while the plugin's own
\* question or request was in flight, any engine but ours is the user's.
UsersEngineKept == global # Ours /\ ~raced => global = chosen

\* The guard of finish is sound: one transaction at a time, its text can only go to
\* the context it was prepared for, and the user's choice of engine wins.
TransactionSound == BusyHasOneOwner /\ ActiveMeansPrepared /\ UsersEngineKept

\* Every transaction ends, the one of a caller that never finishes included; and
\* our engine is given back, also when its activation came after its time limit,
\* unless the restore itself got no answer.
TransactionEnds ==
  /\ b.busy ~> ~b.busy
  /\ (global = Ours) ~> (global # Ours \/ b.gaveUp)
=============================================================================

----------------------------- MODULE FormRuntime -----------------------------
(***************************************************************************)
(* Data-driven forms that share an Observable: ll::ui::detail::FormRuntime *)
(* (CustomForm, MessageBox), the ScreenSession each of them shows, and     *)
(* ll::data::Observable.  A form binds the observable to a location of its *)
(* player's data store in both directions.  Everything runs on the server  *)
(* thread; setData calls its subscribers before it returns, and one of     *)
(* them may call it again.  DataBinding has what a binding does by itself: *)
(* here a client's write is one that is valid and new.                     *)
(***************************************************************************)
EXTENDS Sequences, SequencesExt, Selections

CONSTANTS
    Forms,      \* each for a player of its own
    Values,     \* of the observable
    None,       \* no such location
    Mod,        \* the mod's own subscriber
    Nobody,
    MaxDepth    \* bound: how deep calls of setData nest

ASSUME FormRuntimeAssumption ==
    None \notin Values /\ Nobody \notin Forms /\ Mod \notin Forms /\ MaxDepth >= 1

VARIABLES
    stage,      \* how far each form is
    kind,       \* it was shown by show or by showAsync
    phase,      \* mPhase of its session
    calls,      \* how often the mod was told its result
    player,     \* the player is there
    store,      \* the value at the bound location (external)
    allowed,    \* the store lets the client write it (external)
    data,       \* Observable::State::data
    observers,  \* Observable::State::callbacks, by id
    stack,      \* the calls of setData under way
    missed      \* forms passed over by a setData that they did not bring about

formVars == <<stage, kind, phase, calls, player>>
storeVars == <<store, allowed>>
dataVars == <<data, observers, stack, missed>>
vars == <<formVars, storeVars, dataVars>>

Frames == [from : Forms \cup {Nobody}, todo : Seq(Forms \cup {Mod})]

TypeOK ==
    /\ stage \in [Forms -> {"editing", "prepared", "shown", "resuming", "finished"}]
    /\ kind \in [Forms -> {"show", "showAsync"}]
    /\ phase \in [Forms -> {"Ready", "Showing", "CloseRequested", "Closed"}]
    /\ calls \in [Forms -> 0 .. 2] /\ player \in [Forms -> BOOLEAN]
    /\ store \in [Forms -> Values \cup {None}] /\ allowed \in [Forms -> BOOLEAN]
    /\ data \in Values /\ observers \in Seq(Forms \cup {Mod}) /\ stack \in Seq(Frames)
    /\ missed \subseteq Forms

Init ==
    /\ stage = [f \in Forms |-> "editing"] /\ kind = [f \in Forms |-> "show"]
    /\ phase = [f \in Forms |-> "Ready"] /\ calls = [f \in Forms |-> 0]
    /\ player = [f \in Forms |-> TRUE]
    /\ store = [f \in Forms |-> None] /\ allowed = [f \in Forms |-> FALSE]
    /\ data \in Values /\ observers = <<>> /\ stack = <<>> /\ missed = {}

\* No setData is under way, nor a call of show.
Idle == stack = <<>> /\ \A f \in Forms : stage[f] = "prepared" => kind[f] = "showAsync"

Told(f) == calls' = [calls EXCEPT ![f] = @ + 1]

\* cleanupDataStore, which can do nothing once the player has left.
Cleanup(f) ==
    IF player[f]
    THEN store' = [store EXCEPT ![f] = None] /\ allowed' = [allowed EXCEPT ![f] = FALSE]
    ELSE UNCHANGED storeVars

\* FormRuntime::finish: the bridges are taken down.
Finish(f) ==
    /\ stage' = [stage EXCEPT ![f] = "finished"]
    /\ observers' = Selected(observers, (Forms \cup {Mod}) \ {f})

-----------------------------------------------------------------------------
\* show and showAsync prepare first: the property, a binding the client may
\* write, and the bridge.  A failure takes all of that back.
Prepare(f, how) ==
    /\ Idle /\ stage[f] = "editing"
    /\ kind' = [kind EXCEPT ![f] = how]
    /\ \/ /\ player[f]
          /\ stage' = [stage EXCEPT ![f] = "prepared"]
          /\ store' = [store EXCEPT ![f] = data] /\ allowed' = [allowed EXCEPT ![f] = TRUE]
          /\ observers' = Append(observers, f)
       \/ /\ stage' = [stage EXCEPT ![f] = "finished"]
          /\ UNCHANGED <<storeVars, observers>>
    /\ UNCHANGED <<phase, calls, player, data, stack, missed>>

\* show goes on; so does the task of showAsync, when it is started.
Launch(f) ==
    /\ stack = <<>> /\ stage[f] = "prepared" /\ player[f]
    /\ stage' = [stage EXCEPT ![f] = "shown"] /\ phase' = [phase EXCEPT ![f] = "Showing"]
    /\ UNCHANGED <<kind, calls, player, storeVars, dataVars>>

\* The player has left, or the game has no tracker: failStart.  show returns
\* the error and drops the callback, the task has it as its result.
LaunchFails(f) ==
    /\ stack = <<>> /\ stage[f] = "prepared"
    /\ phase' = [phase EXCEPT ![f] = "Closed"]
    /\ Cleanup(f) /\ Finish(f)
    /\ IF kind[f] = "showAsync" THEN Told(f) ELSE UNCHANGED calls
    /\ UNCHANGED <<kind, player, data, stack, missed>>

\* The form and its task are destroyed unstarted, the session with them.
\* (Mutant: the session is kept.)
BugAbandon(f) ==
    /\ Idle /\ stage[f] = "prepared"
    /\ Finish(f)
    /\ UNCHANGED <<kind, phase, calls, player, storeVars, data, stack, missed>>
Abandon(f) ==
    /\ Idle /\ stage[f] = "prepared"
    /\ phase' = [phase EXCEPT ![f] = "Closed"]
    /\ Cleanup(f) /\ Finish(f)
    /\ UNCHANGED <<kind, calls, player, data, stack, missed>>

Close(f) ==
    /\ Idle /\ phase[f] = "Showing" /\ player[f]
    /\ phase' = [phase EXCEPT ![f] = "CloseRequested"]
    /\ UNCHANGED <<stage, kind, calls, player, storeVars, dataVars>>

\* The game resolves or rejects the promise: the client closed the screen, or
\* the player leaves, or the server stops; it may do so again.
\* (Mutant: the phase is not looked at.)
BugComplete(f) ==
    /\ Idle /\ stage[f] # "editing" /\ kind[f] = "show" /\ calls[f] < 2
    /\ phase' = [phase EXCEPT ![f] = "Closed"]
    /\ Cleanup(f) /\ Finish(f) /\ Told(f)
    /\ UNCHANGED <<kind, player, data, stack, missed>>
Complete(f) ==
    /\ Idle /\ phase[f] \in {"Showing", "CloseRequested"}
    /\ phase' = [phase EXCEPT ![f] = "Closed"]
    /\ Cleanup(f)
    /\ IF kind[f] = "show"
       THEN Finish(f) /\ Told(f)
       ELSE /\ stage' = [stage EXCEPT ![f] = "resuming"]
            /\ UNCHANGED <<observers, calls>>
    /\ UNCHANGED <<kind, player, data, stack, missed>>

\* An executor resumes the coroutine of showAsync.
Resume(f) ==
    /\ Idle /\ stage[f] = "resuming"
    /\ Finish(f) /\ Told(f)
    /\ UNCHANGED <<kind, phase, player, storeVars, data, stack, missed>>

PlayerLeaves(f) ==
    /\ Idle /\ player[f]
    /\ player' = [player EXCEPT ![f] = FALSE]
    /\ store' = [store EXCEPT ![f] = None] /\ allowed' = [allowed EXCEPT ![f] = FALSE]
    /\ UNCHANGED <<stage, kind, phase, calls, dataVars>>

-----------------------------------------------------------------------------
Subscribe ==
    /\ Idle /\ ~ Contains(observers, Mod)
    /\ observers' = Append(observers, Mod)
    /\ UNCHANGED <<formVars, storeVars, data, stack, missed>>

\* Observable::setData, within calls that are under way already.
SetData(v, from, under) ==
    IF v = data THEN data' = data /\ stack' = under
    ELSE data' = v /\ stack' = Append(under, [from |-> from, todo |-> observers])

ModSetsData(v) ==
    /\ Idle
    /\ SetData(v, Nobody, <<>>)
    /\ UNCHANGED <<formVars, storeVars, observers, missed>>

\* The client writes; the binding's listener passes it to the observable.
ClientWrite(f, v) ==
    /\ Idle /\ allowed[f] /\ v # store[f]
    /\ store' = [store EXCEPT ![f] = v]
    /\ SetData(v, f, <<>>)
    /\ missed' = missed \ {f}
    /\ UNCHANGED <<formVars, allowed, observers>>

Top == stack[Len(stack)]
Popped == [stack EXCEPT ![Len(stack)].todo = Tail(@)]
CallTo(c) == stack # <<>> /\ Top.todo # <<>> /\ Head(Top.todo) = c

\* gate->fromBinding
\* (Mutant: one gate for all forms.)
BugGated(f) == \E i \in DOMAIN stack : stack[i].from # Nobody
Gated(f) == \E i \in DOMAIN stack : stack[i].from = f

\* The bridge of a form is told of the value data has by now: binding.set,
\* which fails once the session is closed.
Bridge(f) ==
    /\ CallTo(f)
    /\ stack' = Popped
    /\ store' = IF Gated(f) \/ phase[f] = "Closed" \/ ~ player[f] THEN store
                ELSE [store EXCEPT ![f] = data]
    /\ missed' = IF Top.from # f /\ \E i \in DOMAIN stack : stack[i].from = f
                 THEN missed \cup {f}
                 ELSE IF Top.from = f THEN missed ELSE missed \ {f}
    /\ UNCHANGED <<formVars, allowed, data, observers>>

\* The mod is told, and may call setData itself.
ModIsTold ==
    /\ CallTo(Mod)
    /\ \/ stack' = Popped /\ data' = data
       \/ Len(stack) < MaxDepth /\ \E v \in Values : SetData(v, Nobody, Popped)
    /\ UNCHANGED <<formVars, storeVars, observers, missed>>

SetDataReturns ==
    /\ stack # <<>> /\ Top.todo = <<>>
    /\ stack' = Front(stack)
    /\ UNCHANGED <<formVars, storeVars, data, observers, missed>>

Next ==
    \/ \E f \in Forms :
        \/ \E how \in {"show", "showAsync"} : Prepare(f, how)
        \/ Launch(f) \/ LaunchFails(f) \/ Abandon(f)
        \/ Close(f) \/ Complete(f) \/ Resume(f) \/ PlayerLeaves(f)
        \/ Bridge(f) \/ \E v \in Values : ClientWrite(f, v)
    \/ Subscribe \/ ModIsTold \/ SetDataReturns
    \/ \E v \in Values : ModSetsData(v)

Spec == Init /\ [][Next]_vars

-----------------------------------------------------------------------------
\* The mod is told the result of a screen that was shown, and once only,
\* however often the game settles the promise and whoever closed the screen.
Answered ==
    \A f \in Forms :
        /\ calls'[f] <= 1
        /\ stage[f] \in {"shown", "resuming"} /\ stage'[f] = "finished" => calls'[f] = 1
ToldOnce == [][Answered]_vars

\* docs data_driven_ui.md, "all internal Observable bridges, client-write
\* permissions, native subscriptions, and the owned data-store property are
\* released": whichever way a form comes to its end, and the last three as
\* soon as its session is closed.
ReleasedWhenDone ==
    \A f \in Forms :
        /\ stage[f] = "finished" => ~ Contains(observers, f)
        /\ stage[f] = "finished" \/ phase[f] = "Closed" => store[f] = None /\ ~ allowed[f]

Bound(f) == stage[f] \in {"prepared", "shown"} /\ player[f]

\* When no setData is under way, every bound location has the value of the
\* observable, whoever changed it last, unless a subscriber changed it while
\* it was being told what a client wrote there.
BridgeAgrees ==
    stack = <<>> => \A f \in Forms : Bound(f) /\ f \notin missed => store[f] = data
=============================================================================

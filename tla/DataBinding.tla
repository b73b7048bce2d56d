----------------------------- MODULE DataBinding -----------------------------
(***************************************************************************)
(* One binding of a data-driven screen: a path in a player's data store    *)
(* that its session writes, that other code on the server writes without   *)
(* the session (another session that borrowed the property, the game),     *)
(* that the client may write if it was granted to, and that listeners      *)
(* watch.  Every write, nested ones included, goes to the store at once    *)
(* and is dispatched to the native subscriptions: first the validation of  *)
(* the session, then its listeners.  Everything runs on the server thread; *)
(* what makes it hard is that a listener may write, grant, revoke, listen  *)
(* or unsubscribe in the middle of a dispatch.                             *)
(***************************************************************************)
EXTENDS Sequences, SequencesExt, FiniteSets, Selections

CONSTANTS
    Listeners,
    TypedValues,     \* the values of the type of the binding
    Default,    \* the default of that type
    Bad,        \* a value of another type, or none
    MaxNested,   \* bound: how deep writes nest
    NoListener

ASSUME DataBindingAssumption ==
    /\ Default \in TypedValues /\ Bad \notin TypedValues
    /\ NoListener \notin Listeners /\ "validation" \notin Listeners

VARIABLES
    stored,     \* the value in the player's data store (external)
    writer,     \* who wrote it last
    granted,    \* the store lets the client write the path (external)
    open,       \* the session's phase is not Closed
    present,    \* the player is there
    write,      \* BindingSlot::clientWriteState
    lastGood,   \* BindingSlot::lastGood
    suppress,   \* BindingSlot::suppressNotification
    validation, \* BindingSlot::validationSubscription is set
    subs,       \* the Subscriptions, in the order of their native ones
    dispatches, \* the writes under way
    last        \* what became of a listener that a dispatch has come to

slotVars == <<write, lastGood, suppress, validation, subs>>
bindingVars == <<stored, writer, granted, open, present, slotVars, dispatches, last>>

\* Writes of others, and those of this session.
Outside == {"client", "other"}
Own == {"server", "restore"}

Dispatches ==
    [by : Outside \cup Own, value : TypedValues \cup {Bad}, fresh : BOOLEAN,
     todo : Seq(Listeners \cup {"validation"}), running : Listeners \cup {NoListener}]

BindingTypeOK ==
    /\ stored \in TypedValues \cup {Bad} /\ lastGood \in TypedValues
    /\ writer \in {"client", "other", "server"}
    /\ {granted, open, present, suppress, validation} \subseteq BOOLEAN
    /\ write \in {"Disabled", "Writable", "Restoring"}
    /\ subs \in Seq(Listeners) /\ dispatches \in Seq(Dispatches)

Writable == write # "Disabled"

\* mServerMutationActive, set for as long as a set of this session is under way.
Mutating == \E i \in DOMAIN dispatches : dispatches[i].by \in Own

\* v is what a client that may write the path has sent before, or was given.
Replay(v) == Writable /\ v = lastGood

Current == dispatches[Len(dispatches)]
SetTop(f) == dispatches' = [dispatches EXCEPT ![Len(dispatches)] = f]

\* Mod code runs between writes, or in a listener.
CodeRuns == dispatches # << >> => Current.running # NoListener

Frame(by, v, fresh) ==
    [by |-> by, value |-> v, fresh |-> fresh, running |-> NoListener,
     todo |-> (IF validation THEN <<"validation">> ELSE << >>) \o subs]

BindingInit ==
    /\ stored = Default /\ writer = "server" /\ granted = FALSE
    /\ open = TRUE /\ present = TRUE
    /\ write = "Disabled" /\ lastGood = Default /\ suppress = FALSE
    /\ validation = FALSE /\ subs = << >>
    /\ dispatches = << >> /\ last = NoListener

-----------------------------------------------------------------------------
\* The client writes what it likes, if it may.
ClientWrites(v) ==
    /\ dispatches = << >> /\ granted /\ present /\ open
    /\ stored' = v /\ writer' = "client"
    /\ dispatches' = <<Frame("client", v, ~ Replay(v))>>
    /\ last' = NoListener
    /\ UNCHANGED <<granted, open, present, slotVars>>

\* Code that does not go through this session writes; what it writes may have
\* another type.
OtherWrite(v) ==
    /\ CodeRuns /\ present /\ Len(dispatches) < MaxNested
    /\ stored' = v /\ writer' = "other"
    /\ dispatches' = Append(dispatches, Frame("other", v, ~ Replay(v)))
    /\ last' = NoListener
    /\ UNCHANGED <<granted, open, present, slotVars>>

\* Binding::set, or Property::set, whose value may have another type there.
ServerWrite(v) ==
    /\ open /\ CodeRuns /\ present /\ Len(dispatches) < MaxNested
    /\ stored' = v /\ writer' = "server"
    /\ dispatches' = Append(dispatches, Frame("server", v, v # stored))
    /\ last' = NoListener
    /\ UNCHANGED <<granted, open, present, slotVars>>

Released == validation' = (validation /\ (write' # "Disabled" \/ subs' # << >>))

Listen(l) ==
    /\ open /\ CodeRuns /\ present /\ l \notin ToSet(subs)
    /\ validation' = TRUE
    /\ subs' = Append(subs, l)
    /\ last' = NoListener
    /\ UNCHANGED <<stored, writer, granted, open, present, write, lastGood,
                   suppress, dispatches>>

\* ~Subscription, though not by the callback that is running.
Unsubscribe(l) ==
    /\ CodeRuns
    /\ l \in ToSet(subs) /\ \A i \in DOMAIN dispatches : dispatches[i].running # l
    /\ subs' = Selected(subs, Listeners \ {l})
    /\ write' = write /\ IF open THEN Released ELSE UNCHANGED validation
    /\ last' = NoListener
    /\ UNCHANGED <<stored, writer, granted, open, present, lastGood, suppress,
                   dispatches>>

\* setClientWritable(true)
Grant ==
    /\ open /\ CodeRuns /\ present /\ ~ Writable /\ stored \in TypedValues
    /\ validation' = TRUE
    /\ lastGood' = stored
    /\ granted' = TRUE /\ write' = "Writable"
    /\ last' = NoListener
    /\ UNCHANGED <<stored, writer, open, present, suppress, subs, dispatches>>

\* setClientWritable(false), which without a player only changes the slot.
Revoke ==
    /\ open /\ CodeRuns /\ Writable
    /\ granted' = (granted /\ ~ present)
    /\ write' = "Disabled" /\ lastGood' = Default
    /\ subs' = subs /\ Released
    /\ last' = NoListener
    /\ UNCHANGED <<stored, writer, open, present, suppress, dispatches>>

-----------------------------------------------------------------------------
\* restoreLastGood: setBinding either writes or fails, and then the client
\* loses its permission.
\* (Mutant: the client keeps it.)
BugRestore(f) ==
    \/ /\ stored' = lastGood /\ writer' = "server"
       /\ write' = "Restoring"
       /\ dispatches' = Append([dispatches EXCEPT ![Len(dispatches)] = f],
                          Frame("restore", lastGood, FALSE))
       /\ UNCHANGED <<granted, lastGood, validation, subs>>
    \/ /\ SetTop(f)
       /\ UNCHANGED <<stored, writer, granted, write, lastGood, validation, subs>>
Restore(f) ==
    \/ /\ stored' = lastGood /\ writer' = "server"
       /\ write' = "Restoring"
       /\ dispatches' = Append([dispatches EXCEPT ![Len(dispatches)] = f],
                          Frame("restore", lastGood, FALSE))
       /\ UNCHANGED <<granted, lastGood, validation, subs>>
    \/ /\ granted' = FALSE
       /\ write' = "Disabled" /\ lastGood' = Default
       /\ subs' = subs /\ Released
       /\ SetTop(f)
       /\ UNCHANGED <<stored, writer>>

\* Listeners are not told of what this session writes, nor of a replay.
\* (Mutant: replays are not recognised.)
BugSuppressed(v) == Mutating \/ write = "Restoring"
Suppressed(v) == Mutating \/ write = "Restoring" \/ Replay(v)

\* onNativeChange
Validate ==
    LET f == [Current EXCEPT !.todo = Tail(@)]
        v == Current.value
    IN  /\ dispatches # << >> /\ Current.running = NoListener /\ Current.todo # << >>
        /\ Head(Current.todo) = "validation" /\ open
        /\ \/ /\ v \in TypedValues
              /\ suppress' = Suppressed(v)
              /\ lastGood' = IF Writable THEN v ELSE lastGood
              /\ SetTop(f)
              /\ UNCHANGED <<stored, writer, granted, write, validation, subs>>
           \/ /\ v \notin TypedValues /\ suppress' = TRUE
              /\ IF write = "Writable" /\ ~ Mutating /\ present
                 THEN Restore(f)
                 ELSE /\ SetTop(f)
                      /\ UNCHANGED <<stored, writer, granted, write, lastGood,
                                     validation, subs>>
        /\ last' = NoListener
        /\ UNCHANGED <<open, present>>

\* notifyListener, unless the Subscription has gone.
ListenerTold(l) == l \in ToSet(subs) /\ open /\ ~ suppress /\ Current.value \in TypedValues

Notify ==
    LET l == Head(Current.todo)
    IN  /\ dispatches # << >> /\ Current.running = NoListener /\ Current.todo # << >>
        /\ l # "validation"
        /\ SetTop([Current EXCEPT !.todo = Tail(@),
                                  !.running = IF ListenerTold(l) THEN l ELSE NoListener])
        /\ last' = IF l \in ToSet(subs)
                   THEN [by |-> Current.by, told |-> ListenerTold(l),
                         value |-> Current.value, fresh |-> Current.fresh]
                   ELSE NoListener
        /\ UNCHANGED <<stored, writer, granted, open, present, slotVars>>

ListenerReturns ==
    /\ dispatches # << >> /\ Current.running # NoListener
    /\ SetTop([Current EXCEPT !.running = NoListener])
    /\ last' = NoListener
    /\ UNCHANGED <<stored, writer, granted, open, present, slotVars>>

WriteReturns ==
    /\ dispatches # << >> /\ Current.running = NoListener /\ Current.todo = << >>
    /\ dispatches' = Front(dispatches)
    /\ write' = IF Current.by = "restore" /\ write = "Restoring" THEN "Writable" ELSE write
    /\ last' = NoListener
    /\ UNCHANGED <<stored, writer, granted, open, present, lastGood, suppress,
                   validation, subs>>

-----------------------------------------------------------------------------
PlayerGone ==
    /\ dispatches = << >> /\ present
    /\ present' = FALSE
    /\ last' = NoListener
    /\ UNCHANGED <<stored, writer, granted, open, slotVars, dispatches>>

\* The session completes: cleanupDataStore.
CloseSession ==
    /\ dispatches = << >> /\ open
    /\ open' = FALSE
    /\ granted' = (granted /\ ~ (Writable /\ present))
    /\ stored' = IF present THEN Bad ELSE stored
    /\ writer' = "server"
    /\ validation' = FALSE
    /\ last' = NoListener
    /\ UNCHANGED <<present, write, lastGood, suppress, subs, dispatches>>

BindingNext ==
    \/ \E v \in TypedValues \cup {Bad} : ClientWrites(v) \/ OtherWrite(v) \/ ServerWrite(v)
    \/ \E l \in Listeners : Listen(l) \/ Unsubscribe(l)
    \/ Grant \/ Revoke
    \/ Validate \/ Notify \/ ListenerReturns \/ WriteReturns
    \/ PlayerGone \/ CloseSession

BindingSpec == BindingInit /\ [][BindingNext]_bindingVars

-----------------------------------------------------------------------------
\* docs data_driven_ui.md, "a validated server or client data-store update",
\* "invalid or replayed writes do not reach listeners": whatever the listeners
\* do meanwhile, each is told of valid and new values only, and never of what
\* its own session writes.
OnlyNewAndValid ==
    last # NoListener /\ last.told =>
        last.value \in TypedValues /\ last.fresh /\ last.by \in Outside

\* "the last valid value is restored when possible": between writes, a value
\* of another type in a path the client may write was put there by the session
\* itself, and what would be restored is what is there.
ClientLeavesGoodData ==
    dispatches = << >> /\ open /\ present /\ granted =>
        /\ Writable
        /\ IF stored \in TypedValues THEN stored = lastGood ELSE writer = "server"
=============================================================================

---------------------------- MODULE CommandHandle ----------------------------
(***************************************************************************)
(* ll::command: the overloads of one command.  The handle records which    *)
(* mod registered which parameters; the game's signature holds, for each   *)
(* parameters, the factory that makes the command when it is run.  What a  *)
(* disabled mod registered is kept aside, to be put back when somebody     *)
(* registers the same parameters again.  Mods live as they do in EventBus. *)
(* Each call holds the mutex of the handle and is one step.                *)
(***************************************************************************)
EXTENDS EventBus, Selections

CONSTANT Params   \* what overloads are told apart by, CommandParameterData::operator==

VARIABLES
    available,  \* the game has a registry of commands
    overloads,  \* CommandHandle::Impl::overloads: who registered what
    signature,  \* Signature::overloads, and the mod whose factory each has
    withdrawn   \* CommandHandle::Impl::disabledOverloads

handleVars == <<overloads, signature, withdrawn>>
commandVars == <<available, handleVars>>

CommandTypeOK ==
    /\ available \in BOOLEAN
    /\ overloads \subseteq [mod : Objs, params : Params]
    /\ signature \in Seq([params : Params, alloc : Objs])
    /\ withdrawn \in Seq(Params)

CommandInit ==
    /\ available = FALSE
    /\ overloads = {} /\ signature = <<>> /\ withdrawn = <<>>

\* The game sets up a registry, or the server stops: the handles are cleared.
Clear(up) ==
    /\ available' = up
    /\ overloads' = {} /\ signature' = <<>> /\ withdrawn' = <<>>
    /\ UNCHANGED vars

\* Overload::execute from the code of o: what was withdrawn is put back, the
\* factory of what is there is replaced, and only what is new is added.
\* (Mutant: what was withdrawn is not looked at.)
BugRegisterOverload(o, p) ==
    /\ available /\ Alive(o)
    /\ overloads' = overloads \cup {[mod |-> o, params |-> p]}
    /\ signature' = IF \E s \in ToSet(signature) : s.params = p
                    THEN [i \in DOMAIN signature |->
                             IF signature[i].params = p THEN [signature[i] EXCEPT !.alloc = o]
                             ELSE signature[i]]
                    ELSE Append(signature, [params |-> p, alloc |-> o])
    /\ UNCHANGED <<vars, available, withdrawn>>
RegisterOverload(o, p) ==
    LET new == [params |-> p, alloc |-> o]
        found == {i \in DOMAIN signature : signature[i].params = p}
        back == Selected(withdrawn, {p})
    IN  /\ available /\ Alive(o)
        /\ overloads' = overloads \cup {[mod |-> o, params |-> p]}
        /\ withdrawn' = Selected(withdrawn, Params \ {p})
        /\ signature' =
               IF back # <<>> THEN signature \o [i \in DOMAIN back |-> new]
               ELSE IF found # {} THEN [signature EXCEPT ![Min(found)] = new]
               ELSE Append(signature, new)
        /\ UNCHANGED <<vars, available>>

\* disableModOverloads: the overloads of the mod, and of all whose Mod object
\* is gone.
DisableModOverloads(n) ==
    LET gone == {d \in overloads : ~ Alive(d.mod) \/ NameOf[d.mod] = n}
        goes == {s \in ToSet(signature) : \E d \in gone : d.params = s.params}
        out == Selected(signature, goes)
    IN  /\ overloads' = overloads \ gone
        /\ signature' = Selected(signature, ToSet(signature) \ goes)
        /\ withdrawn' = withdrawn \o [i \in DOMAIN out |-> out[i].params]

\* The callback of executeOnModDisable, which asks whether the game runs.
WhenDisabled(o) ==
    /\ IF status = "Running" THEN DisableModOverloads(NameOf[o]) ELSE UNCHANGED handleVars
    /\ available' = available

DisableWithCommands(o) == Disable(o) /\ WhenDisabled(o)

\* Another subscriber fails after this one: the mod stays enabled.
DisableRefused(o) == life[o] = "enabled" /\ WhenDisabled(o) /\ UNCHANGED vars

CommandNext ==
    \/ SetStatus /\ UNCHANGED commandVars
    \/ \E up \in BOOLEAN : Clear(up)
    \/ \E o \in Objs :
        \/ /\ LoadBegins(o) \/ LoadEnds(o) \/ LoadFails(o) \/ Enable(o) \/ Unload(o)
           /\ UNCHANGED commandVars
        \/ DisableWithCommands(o) \/ DisableRefused(o)
        \/ \E p \in Params : RegisterOverload(o, p)

CommandSpec == Init /\ CommandInit /\ [][CommandNext]_<<vars, commandVars>>

-----------------------------------------------------------------------------
\* The game lists parameters once, and not while they are withdrawn; and a
\* factory it may call is on record for its mod, so that disabling the mod
\* finds it, though mods with the same parameters replace each other's.
OverloadsAgree ==
    /\ \A i, j \in DOMAIN signature : signature[i].params = signature[j].params => i = j
    /\ \A s \in ToSet(signature) :
        /\ s.params \notin ToSet(withdrawn)
        /\ [mod |-> s.alloc, params |-> s.params] \in overloads
=============================================================================

------------------------------- MODULE Dispatch -------------------------------
(***************************************************************************)
(* How the native search is installed into CayleyPy and removed again       *)
(* (dispatch.py).  A release with the public hook has a table of named      *)
(* backends and a default; in an older one CayleyGraph.beam_search is       *)
(* replaced.  Other integrations use the same hook and the same attribute.  *)
(* A search function is the sequence of the wrappers around the upstream    *)
(* one, by the session of ours or the integration each belongs to.          *)
(***************************************************************************)
EXTENDS Naturals, FiniteSets, Sequences, Functions

CONSTANTS
    Hook,          \* this CayleyPy has the public hook
    Concurrent,    \* other integrations act on other threads
    Stale,         \* they may put back a function they saved long ago
    Configs,       \* values of NativeOptions
    MaxInstalls,   \* bound: sessions of ours
    MaxForeign     \* bound: steps of the other integration

DispatchAssumption ==
    /\ {Hook, Concurrent, Stale} \subseteq BOOLEAN
    /\ MaxInstalls \in Nat \ {0} /\ MaxForeign \in Nat

Modes == {"auto", "native", "torch"}
Names == <<"native", "auto">>
None == "none"
NoFunction == <<0>>
Free == 0
Foreign == MaxInstalls + 1
NoRegistration == [session |-> 0, previous |-> None, default |-> None]

VARIABLES
    method,        \* CayleyGraph.beam_search
    owner,         \* who registered each name of the hook
    default,       \* the hook's default backend
    original, installed,   \* _ORIGINAL, _INSTALLED
    registration,  \* _REGISTRATION
    config,        \* the sessions' options and default backend
    sessions,      \* how many there were
    pc, request,   \* the enable or disable in progress
    saved,         \* a function the other integration keeps
    foreign,       \* steps it made
    before         \* what enable_native found: <<method, owner, default, foreign>>

vars == <<method, owner, default, original, installed, registration, config,
          sessions, pc, request, saved, foreign, before>>

hook == <<owner, default, registration>>
patch == <<method, original, installed>>
outside == <<saved, foreign>>

Wrapped == original # NoFunction
Registered == registration # NoRegistration
Ours == 1..MaxInstalls
Layers(f) == {i \in DOMAIN f : f[i] \in Ours}

TypeOK ==
    /\ owner \in [Range(Names) -> Ours \cup {Free, Foreign}]
    /\ default \in Modes /\ sessions \in 0..MaxInstalls
    /\ config \in [Ours -> [options : Configs \cup {None}, default : Modes]]
    /\ registration.session \in 0..sessions
    /\ pc \in {"idle", "enable", "register", "default", "undo", "rewrap", "disable",
               "unregister", "unwrap"}
    /\ foreign \in 0..MaxForeign
    /\ Wrapped => installed = Append(original, sessions)

Init ==
    /\ method = <<>> /\ default = "torch"
    /\ owner = [n \in Range(Names) |-> Free]
    /\ original = NoFunction /\ installed = NoFunction /\ registration = NoRegistration
    /\ config = [s \in Ours |-> [options |-> None, default |-> "auto"]]
    /\ sessions = 0 /\ pc = "idle" /\ request = [options |-> None, default |-> "auto"]
    /\ saved = <<>> /\ foreign = 0
    /\ before = <<method, owner, default, foreign>>

Idle == pc' = "idle"

----------------------------------------------------------------------------
(* enable_native                                                            *)

Enable ==
    /\ pc = "idle" /\ (sessions < MaxInstalls \/ Wrapped \/ Registered)
    /\ request' \in [options : Configs, default : Modes]
    /\ pc' = IF Hook /\ ~Wrapped THEN "enable" ELSE "rewrap"
    /\ UNCHANGED <<hook, patch, config, sessions, outside, before>>

Trusting == TRUE                          \* mutant: the check is skipped
\* _check_registration
Owned ==
    /\ \A n \in Range(Names) : owner[n] = registration.session
    /\ default = registration.default

\* A second enable changes options and default of the session in place; what
\* was there before the first one is still what disable restores.
PreviousOfLast == [registration EXCEPT !.previous = default, !.default = request.default] \* mutant
Updated == [registration EXCEPT !.default = request.default]

EnableRegistry ==
    /\ pc = "enable"
    /\ IF Registered
       THEN /\ IF Owned
               THEN /\ default' = request.default /\ registration' = Updated
                    /\ config' = [config EXCEPT ![registration.session] = request]
               ELSE UNCHANGED <<default, registration, config>>
            /\ Idle /\ UNCHANGED <<sessions, before>>
       ELSE /\ sessions' = sessions + 1
            /\ config' = [config EXCEPT ![sessions'] = request]
            /\ before' = <<method, owner, default, foreign>>
            /\ pc' = "register" /\ UNCHANGED <<default, registration>>
    /\ UNCHANGED <<owner, patch, request, outside>>

Unclaimed == {n \in Range(Names) : owner[n] # sessions}
NextName == Names[CHOOSE i \in DOMAIN Names :
                      Names[i] \in Unclaimed /\ \A j \in 1..i - 1 : Names[j] \notin Unclaimed]

LeaveAdded == Idle                        \* mutant: names registered so far stay
RollBack == pc' = "undo"

\* register_beam_search_backend refuses a name that is taken.
Register ==
    /\ pc = "register"
    /\ IF owner[NextName] = Free
       THEN /\ owner' = [owner EXCEPT ![NextName] = sessions]
            /\ pc' = IF Cardinality(Unclaimed) = 1 THEN "default" ELSE pc
       ELSE RollBack /\ UNCHANGED owner
    /\ UNCHANGED <<default, registration, patch, config, sessions, request, outside, before>>

\* unregister_beam_search_backend of what was added, and the exception goes on.
Undo ==
    /\ pc = "undo"
    /\ owner' = [n \in DOMAIN owner |-> IF owner[n] = sessions THEN Free ELSE owner[n]]
    /\ Idle
    /\ UNCHANGED <<default, registration, patch, config, sessions, request, outside, before>>

SetDefault ==
    /\ pc = "default"
    /\ registration' = [session |-> sessions, previous |-> default, default |-> request.default]
    /\ default' = request.default /\ Idle
    /\ UNCHANGED <<owner, patch, config, sessions, request, outside, before>>

Upstream == <<>>                          \* mutant: the function CayleyPy ships
Inner == method

NeverWrapped == FALSE                     \* mutant: every enable wraps
AlreadyWrapped == Wrapped

\* A release without the hook: the attribute is replaced once.
Rewrap ==
    /\ pc = "rewrap" /\ Idle
    /\ \/ AlreadyWrapped /\ method # installed /\ UNCHANGED <<patch, config, sessions, before>>
       \/ /\ AlreadyWrapped /\ method = installed
          /\ config' = [config EXCEPT ![sessions] = request]
          /\ UNCHANGED <<patch, sessions, before>>
       \/ /\ ~AlreadyWrapped /\ sessions' = sessions + 1
          /\ before' = <<method, owner, default, foreign>>
          /\ original' = Inner /\ installed' = Append(method, sessions')
          /\ method' = installed'
          /\ config' = [config EXCEPT ![sessions'] = request]
    /\ UNCHANGED <<hook, request, outside>>

----------------------------------------------------------------------------
(* disable_native                                                           *)

AnyMethod == Wrapped                      \* mutant: the attribute is not compared
StillInstalled == Wrapped /\ method = installed

Disable ==
    /\ pc = "idle"
    /\ IF Registered THEN pc' = IF Owned THEN "disable" ELSE pc
       ELSE pc' = IF StillInstalled THEN "unwrap" ELSE pc
    /\ UNCHANGED <<hook, patch, config, sessions, request, outside, before>>

RestoreDefault ==
    /\ pc = "disable"
    /\ default' = registration.previous /\ pc' = "unregister"
    /\ UNCHANGED <<owner, registration, patch, config, sessions, request, outside, before>>

Unregister ==
    /\ pc = "unregister"
    /\ owner' = [n \in DOMAIN owner |-> Free]
    /\ registration' = NoRegistration /\ Idle
    /\ UNCHANGED <<default, patch, config, sessions, request, outside, before>>

ForgotSession == [config EXCEPT ![sessions].default = "auto"]   \* mutant: _SESSION is reset
KeptSession == config

\* The session remains valid for methods that were bound before.
Unwrap ==
    /\ pc = "unwrap" /\ Idle
    /\ method' = original /\ original' = NoFunction /\ installed' = NoFunction
    /\ config' = KeptSession
    /\ UNCHANGED <<hook, sessions, request, outside, before>>

----------------------------------------------------------------------------
(* The other integration                                                    *)

MayAct == foreign < MaxForeign /\ (~Concurrent => pc = "idle") /\ foreign' = foreign + 1

ForeignWrap ==
    /\ MayAct /\ ~Hook
    /\ saved' = method /\ method' = Append(method, Foreign)
    /\ UNCHANGED <<hook, original, installed, config, sessions, pc, request, before>>

\* It removes its wrapper, or puts back what it saved whatever is there now.
ForeignRestore ==
    /\ MayAct /\ ~Hook
    /\ ~Stale => method = Append(saved, Foreign)
    /\ method' = saved
    /\ UNCHANGED <<hook, original, installed, config, sessions, pc, request, saved, before>>

\* It keeps the function of the moment.
ForeignSave ==
    /\ MayAct /\ ~Hook
    /\ saved' = method
    /\ UNCHANGED <<hook, patch, config, sessions, pc, request, before>>

ForeignName(n) ==
    /\ MayAct /\ Hook
    /\ owner' = [owner EXCEPT ![n] = IF @ = Foreign THEN Free ELSE Foreign]
    /\ UNCHANGED <<default, registration, patch, config, sessions, pc, request, saved, before>>

ForeignDefault(m) ==
    /\ MayAct /\ Hook
    /\ m \in {"torch"} \cup {n \in Range(Names) : owner[n] # Free}
    /\ m # default
    /\ default' = m
    /\ UNCHANGED <<owner, registration, patch, config, sessions, pc, request, saved, before>>

Own ==
    \/ Enable \/ EnableRegistry \/ Register \/ Undo \/ SetDefault \/ Rewrap
    \/ Disable \/ RestoreDefault \/ Unregister \/ Unwrap

Other ==
    \/ ForeignWrap \/ ForeignRestore \/ ForeignSave
    \/ (\E n \in Range(Names) : ForeignName(n)) \/ (\E m \in Modes : ForeignDefault(m))

Next == Own \/ Other

Spec == Init /\ [][Next]_vars

----------------------------------------------------------------------------
(* Properties                                                               *)

Removed == pc = "idle" /\ ~Registered /\ ~Wrapped

\* After an enable that failed half-way, or any number of them and one disable,
\* CayleyPy is what it was before the first, if nobody else acted
\* (dispatch.py:90-93, 320-339).
RestoresWhatItFound ==
    Removed /\ before[4] = foreign => <<method, owner, default>> = <<before[1], before[2], before[3]>>

\* No trace of ours is left in the hook, whoever else acted (dispatch.py:90-93, 328).
NothingLeftBehind == Removed => \A n \in Range(Names) : owner[n] \in {Free, Foreign}

\* Enabling and disabling keep every wrapper and every name of another
\* integration (dispatch.py:321).
Theirs(f) == {i \in DOMAIN f : f[i] = Foreign}
ForeignKept ==
    Own => /\ Theirs(method) = Theirs(method')
           /\ \A n \in DOMAIN owner : owner[n] = Foreign => owner'[n] = Foreign

\* and the default backend another integration chose since: ours is put back
\* only over our own (dispatch.py:59).
ForeignDefaultKept ==
    Own /\ Registered /\ default' # default => default = registration.default

\* A method that was bound before disable_native keeps the options and default
\* of its own session, whatever later sessions do (dispatch.py:280).
OldSessionsKept ==
    \A s \in 1..sessions :
        (s # registration'.session /\ ~(Wrapped' /\ s = sessions')) => config'[s] = config[s]

\* A search that asks for torch does not come back to the native one: nobody's
\* function holds two wrappers of ours (dispatch.py:45-49, 311).
TorchStaysTorch == Cardinality(Layers(method)) <= 1
=============================================================================

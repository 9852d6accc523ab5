------------------------------ MODULE Session -------------------------------
(***************************************************************************)
(* What a V2RayPoint promises the application, without locks, channels or  *)
(* goroutines: one core at a time goes through starting, on and stopping;  *)
(* a stop first cancels what belongs to the running core, then ends it,    *)
(* then says so; and a core that was cancelled never comes back.           *)
(***************************************************************************)
CONSTANT Cores      \* identities of core instances

VARIABLES
    phase,          \* "off", "starting", "on" or "stopping"
    running,        \* the cores that run
    cancelled,      \* the cores whose waiters were told to give up
    told            \* the last status given to the application

vars == <<phase, running, cancelled, told>>

Move(from, to) == phase = from /\ phase' = to

Init == phase = "off" /\ running = {} /\ cancelled = {} /\ told = "none"

Begin == Move("off", "starting") /\ UNCHANGED <<running, cancelled, told>>

Abort == Move("starting", "off") /\ UNCHANGED <<running, cancelled, told>>

Up(s) ==
    /\ Move("starting", "on")
    /\ running = {} /\ s \notin cancelled
    /\ running' = {s}
    /\ told' = "Running"
    /\ UNCHANGED cancelled

Stop == Move("on", "stopping") /\ UNCHANGED <<running, cancelled, told>>

Cancel ==
    /\ phase = "stopping"
    /\ running \cap cancelled = {}
    /\ cancelled' = cancelled \cup running
    /\ UNCHANGED <<phase, running, told>>

Kill ==
    /\ phase = "stopping"
    /\ running # {} /\ running \subseteq cancelled
    /\ running' = {}
    /\ UNCHANGED <<phase, cancelled, told>>

Down ==
    /\ Move("stopping", "off")
    /\ running = {}
    /\ told' = "Closed"
    /\ UNCHANGED <<running, cancelled>>

Next ==
    \/ Begin \/ Abort \/ Stop \/ Cancel \/ Kill \/ Down
    \/ \E s \in Cores : Up(s)

Spec == Init /\ [][Next]_vars

=============================================================================

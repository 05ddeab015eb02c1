----------------------------- MODULE Supervisor -----------------------------
(***************************************************************************)
(* The supervisor (main.c): it forks the workers, installs its handlers,   *)
(* and from then on waits for workers that end and relays the signals that *)
(* the operator sends to it.  A worker is seen from outside: it is young,  *)
(* with the default disposition of signals, until its setup_signals, and   *)
(* ready after it; what happens inside is in Worker.                        *)
(***************************************************************************)
EXTENDS Integers, Sequences

CONSTANTS
  N,           \* what decide_workers returned
  MaxSignals,  \* bound: signals that the operator sends
  Deaths       \* bound: workers that end without having been told to

Workers == 0..(N - 1)
Signals == {"HUP", "TERM"}
NoSignal == "none"

ASSUME SupervisorAssumption ==
  /\ N \in Nat /\ N > 1 /\ MaxSignals \in Nat /\ Deaths \in Nat

VARIABLES
  sup,       \* of main: where it is, i, sig, alive
  last,      \* g_last_signal
  pending,   \* of the kernel: signals for the supervisor
  inbox,     \* of the kernel: signals for each worker
  life,      \* of each worker
  gen,       \* of each worker: the configuration it goes by
  file,      \* external: the configuration in the file
  sent,      \* external: the signals sent so far, in order
  deaths,    \* external: how many workers ended by themselves
  clash      \* ghost: a signal was sent with something else under way, or a
             \* worker died with a signal on its way to the supervisor

kernel == <<pending, inbox>>
world  == <<file, sent, deaths, clash>>
vars == <<sup, last, kernel, life, gen, world>>

At(pc) == sup.pc = pc
Goto(pc) == sup' = [sup EXCEPT !.pc = pc]

Init ==
  /\ sup = [pc |-> "fork", i |-> 0, sig |-> NoSignal, alive |-> N]
  /\ last = NoSignal
  /\ pending = {} /\ inbox = [w \in Workers |-> {}]
  /\ life = [w \in Workers |-> "none"] /\ gen = [w \in Workers |-> 0]
  /\ file = 0 /\ sent = <<>> /\ deaths = 0 /\ clash = FALSE

----------------------------------------------------------------------------
(* main, up to its loop.                                                   *)

Fork ==
  /\ At("fork") /\ sup.i < N
  /\ life' = [life EXCEPT ![sup.i] = "young"]
  /\ sup' = [sup EXCEPT !.i = @ + 1]
  /\ UNCHANGED <<last, kernel, gen, world>>

\* All the workers are there, or fork failed: there will be no more.
Forked ==
  /\ At("fork") /\ Goto("arm")
  /\ UNCHANGED <<last, kernel, life, gen, world>>

\* The three calls of sigaction, and the loop begins.
Arm ==
  /\ At("arm") /\ Goto("loop")
  /\ UNCHANGED <<last, kernel, life, gen, world>>

----------------------------------------------------------------------------
(* The loop of the supervisor.                                             *)

Child(w) == life[w] \notin {"none", "reaped"}
Zombies  == {w \in Workers : life[w] = "zombie"}

\* The call of wait: what arrives before it does not interrupt it.
Wait ==
  /\ At("loop") /\ Goto("wait")
  /\ UNCHANGED <<last, kernel, life, gen, world>>

\* wait returns a worker that ended.
Reap ==
  /\ At("wait")
  /\ \E w \in Zombies : life' = [life EXCEPT ![w] = "reaped"]
  /\ sup' = [sup EXCEPT !.alive = @ - 1, !.pc = IF sup.alive = 1 THEN "over" ELSE "loop"]
  /\ UNCHANGED <<last, kernel, gen, world>>

\* wait finds no children (ECHILD): fewer were forked than alive counts.
Childless ==
  /\ At("wait") /\ \A w \in Workers : ~Child(w)
  /\ Goto("over")
  /\ UNCHANGED <<last, kernel, life, gen, world>>

\* Mutant: every return of wait without a child ends the loop.
DeliverBreaks ==
  \E s \in pending :
    /\ pending' = pending \ {s}
    /\ ~At("fork") /\ ~At("arm") /\ last' = s
    /\ IF At("wait") THEN Goto("over") ELSE UNCHANGED sup
    /\ UNCHANGED <<inbox, life, gen, world>>

\* A signal reaches the supervisor.  Before sigaction it is the end of it.
\* After that on_parent_signal notes it, and wait returns EINTR if it was
\* blocked; if a worker had ended it may return that worker instead.
Deliver ==
  \E s \in pending :
    /\ pending' = pending \ {s}
    /\ \/ /\ At("fork") \/ At("arm")
          /\ Goto("killed") /\ UNCHANGED last
       \/ /\ At("wait")
          /\ last' = s /\ Goto("eintr")
       \/ /\ ~At("fork") /\ ~At("arm") /\ (At("wait") => Zombies # {})
          /\ last' = s /\ UNCHANGED sup
    /\ UNCHANGED <<inbox, life, gen, world>>

Interrupted ==
  /\ At("eintr")
  /\ sup' = [sup EXCEPT !.pc = "relay", !.i = 0, !.sig = last]
  /\ UNCHANGED <<last, kernel, life, gen, world>>

\* Mutant: the last worker is left out.
RelayShort ==
  /\ At("relay") /\ sup.i < N - 1
  /\ inbox' = [inbox EXCEPT ![sup.i] = IF Child(sup.i) THEN @ \cup {sup.sig} ELSE @]
  /\ sup' = [sup EXCEPT !.i = @ + 1, !.pc = IF sup.i = N - 2 THEN "reset" ELSE @]
  /\ UNCHANGED <<last, pending, life, gen, world>>

\* kill(pids[i], sig).  A worker that was not forked has no pid; one that was
\* reaped has its old pid still, which is taken here to be nobody's.
Relay ==
  /\ At("relay") /\ sup.i < N
  /\ inbox' = [inbox EXCEPT ![sup.i] = IF Child(sup.i) THEN @ \cup {sup.sig} ELSE @]
  /\ sup' = [sup EXCEPT !.i = @ + 1, !.pc = IF sup.i = N - 1 THEN "reset" ELSE @]
  /\ UNCHANGED <<last, pending, life, gen, world>>

Reset ==
  /\ At("reset") /\ last' = NoSignal /\ Goto("loop")
  /\ UNCHANGED <<kernel, life, gen, world>>

----------------------------------------------------------------------------
(* A worker, seen from outside.                                            *)

\* Mutant: a worker takes the configuration it was forked with again.
HandleOld(w) ==
  /\ life[w] = "ready"
  /\ \E s \in inbox[w] :
       /\ inbox' = [inbox EXCEPT ![w] = @ \ {s}]
       /\ life' = IF s = "TERM" THEN [life EXCEPT ![w] = "stopping"] ELSE life
  /\ UNCHANGED <<sup, last, pending, gen, world>>

\* setup_signals, after everything else run_worker sets up.
Ready(w) ==
  /\ life[w] = "young"
  /\ life' = [life EXCEPT ![w] = "ready"]
  /\ UNCHANGED <<sup, last, kernel, gen, world>>

\* It could not start, or its loop failed.
Die(w) ==
  /\ life[w] \in {"young", "ready"} /\ deaths < Deaths
  /\ life' = [life EXCEPT ![w] = "zombie"] /\ deaths' = deaths + 1
  /\ inbox' = [inbox EXCEPT ![w] = {}]
  /\ clash' = (clash \/ pending # {})
  /\ UNCHANGED <<sup, last, pending, gen, file, sent>>

\* A signal reaches a worker that has no handlers yet.
KilledYoung(w) ==
  /\ life[w] = "young" /\ inbox[w] # {}
  /\ life' = [life EXCEPT ![w] = "zombie"]
  /\ inbox' = [inbox EXCEPT ![w] = {}]
  /\ UNCHANGED <<sup, last, pending, gen, world>>

\* on_signal, and later handle_signal in the loop: reload_config, or
\* io_loop_stop.
Handle(w) ==
  /\ life[w] = "ready"
  /\ \E s \in inbox[w] :
       /\ inbox' = [inbox EXCEPT ![w] = @ \ {s}]
       /\ gen' = IF s = "HUP" THEN [gen EXCEPT ![w] = file] ELSE gen
       /\ life' = IF s = "TERM" THEN [life EXCEPT ![w] = "stopping"] ELSE life
  /\ UNCHANGED <<sup, last, pending, world>>

\* run_worker ends.
End(w) ==
  /\ life[w] = "stopping"
  /\ life' = [life EXCEPT ![w] = "zombie"]
  /\ inbox' = [inbox EXCEPT ![w] = {}]
  /\ UNCHANGED <<sup, last, pending, gen, world>>

----------------------------------------------------------------------------
(* The operator.                                                           *)

Latest == IF sent = <<>> THEN NoSignal ELSE sent[Len(sent)]

\* Nothing else is under way when s is sent: wait is blocked, no signal is on
\* its way, no worker has ended, and SIGHUP finds no worker without handlers.
Quiet(s) ==
  /\ At("wait") /\ pending = {}
  /\ \A w \in Workers :
       /\ inbox[w] = {} /\ life[w] \in {"none", "young", "ready", "reaped"}
       /\ s = "HUP" => life[w] # "young"

\* A new configuration is written before a SIGHUP.
Send(s) ==
  /\ ~At("killed") /\ ~At("over") /\ Len(sent) < MaxSignals
  /\ pending' = pending \cup {s}
  /\ sent' = Append(sent, s)
  /\ file' = IF s = "HUP" THEN file + 1 ELSE file
  /\ clash' = (clash \/ ~Quiet(s))
  /\ UNCHANGED <<sup, last, inbox, life, gen, deaths>>

----------------------------------------------------------------------------

Main == Fork \/ Forked \/ Arm \/ Wait \/ Reap \/ Childless \/ Interrupted \/ Relay \/ Reset
WorkerStep(w) == Ready(w) \/ KilledYoung(w) \/ Handle(w) \/ End(w)

Next ==
  \/ Main \/ Deliver
  \/ \E w \in Workers : WorkerStep(w) \/ Die(w)
  \/ \E s \in Signals : Send(s)

Spec == Init /\ [][Next]_vars

\* Processes run, and the kernel delivers what is pending.
FairSpec ==
  /\ Spec /\ WF_vars(Main) /\ WF_vars(Deliver)
  /\ \A w \in Workers : WF_vars(WorkerStep(w))

----------------------------------------------------------------------------
(* Properties.                                                             *)

\* Every variable has the values its type in main.c allows.
TypeOK ==
  /\ sup \in [pc : {"fork", "arm", "loop", "wait", "eintr", "relay", "reset", "over", "killed"},
              i : 0..N, sig : Signals \cup {NoSignal}, alive : 0..N]
  /\ last \in Signals \cup {NoSignal}
  /\ pending \subseteq Signals /\ inbox \in [Workers -> SUBSET Signals]
  /\ life \in [Workers -> {"none", "young", "ready", "stopping", "zombie", "reaped"}]
  /\ gen \in [Workers -> 0..file] /\ file \in Nat
  /\ sent \in Seq(Signals) /\ deaths \in 0..Deaths /\ clash \in BOOLEAN

\* The supervisor does not leave its loop while a worker of its lives: alive
\* counts the workers there should be, so the loop ends either by counting them
\* all or because wait has none left, also when fork failed half-way.
NoOrphan == At("over") => \A w \in Workers : ~Child(w)

\* A worker is told only what the operator sent: no stray value of
\* g_last_signal (0 after the reset, or one already relayed) reaches kill.
OnlySent ==
  /\ \A w \in Workers : \A s \in inbox[w] : \E k \in DOMAIN sent : sent[k] = s
  /\ sup.pc = "relay" => sup.sig # NoSignal

\* A SIGTERM sent while nothing else is under way ends every worker and the
\* supervisor after them.
TermEnds == (Latest = "TERM" /\ ~clash) ~> (At("over") \/ clash)

\* A SIGHUP sent while nothing else is under way makes every worker that is up
\* go by the file that was written before it.
ReloadReaches ==
  \A n \in 1..MaxSignals :
    (file = n /\ Latest = "HUP" /\ ~clash) ~>
      \/ clash \/ file # n
      \/ \A w \in Workers : life[w] = "ready" => gen[w] = n

\* Refuted: the supervisor relays every SIGTERM ("solo repite senales y
\* espera", main.c:444).  One that arrives between two calls of wait is noted
\* in g_last_signal, and wait blocks all the same; one that finds another in
\* g_last_signal replaces it, or is cleared by the reset.
TermAlways == (Latest = "TERM") ~> (At("over") \/ At("killed"))

\* Refuted: a reload does not take a worker down (main.c:58-59).  One that is
\* relayed before the worker has its handlers does.
HupHarmless ==
  [][\A w \in Workers : KilledYoung(w) => inbox[w] # {"HUP"}]_vars
=============================================================================

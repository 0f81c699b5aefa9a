------------------------------ MODULE Launches ------------------------------
(***************************************************************************)
(* Starting the program more than once (main.rs, gui/window.rs run): the   *)
(* command line is classified, the first start of a logon session owns the *)
(* named mutex for the life of its window, and a later one raises that     *)
(* window and ends.  The mutex exists as long as any process has a handle  *)
(* on it, the later starts' own included, and the window exists for less   *)
(* than the mutex does.  A process may be killed at any step.              *)
(***************************************************************************)
EXTENDS Naturals, FiniteSets

CONSTANTS
  Starts,     \* the processes that will be started
  Sessions,   \* logon sessions of the user
  SessionOf   \* the session each process is started in

ASSUME LaunchAssumption == SessionOf \in [Starts -> Sessions]

(* The command lines: nothing, an application input, --help, an option it  *)
(* does not know, more than one input.                                     *)
Arguments == {"nothing", "input", "help", "unknownOption", "tooMany"}

VARIABLES
  at,        \* where each process stands
  argument,  \* its command line
  code,      \* its exit code: "ok" is 0, "failed" 1 and "wrong" 2
  handles,   \* processes with a handle on the mutex of their session
  windows,   \* processes whose window exists
  shown,     \* ghost: processes that showed their own window
  raised     \* ghost: processes that raised another's

vars == <<at, argument, code, handles, windows, shown, raised>>

Move(p, place) == at' = [at EXCEPT ![p] = place]

Ends(p, exit) ==
  /\ Move(p, "exited")
  /\ code' = [code EXCEPT ![p] = exit]

Neighbours(p) == {q \in Starts : SessionOf[q] = SessionOf[p]}

(* classify_arguments, and what main does with its verdict.                *)
Start(p, line) ==
  /\ at[p] = "unstarted"
  /\ argument' = [argument EXCEPT ![p] = line]
  /\ \/ /\ line \in {"nothing", "input"}
        /\ Move(p, "acquiring") /\ UNCHANGED code
     \/ line = "help" /\ Ends(p, "ok")
     \/ line \in {"unknownOption", "tooMany"} /\ Ends(p, "wrong")
  /\ UNCHANGED <<handles, windows, shown, raised>>

Taken(p) == handles \cap Neighbours(p) # {}

AcquireAndDrop(p) ==   \* mutated
  /\ at[p] = "acquiring"
  /\ Move(p, IF Taken(p) THEN "second" ELSE "creating")
  /\ handles' = IF Taken(p) THEN handles \cup {p} ELSE handles
  /\ UNCHANGED <<argument, code, windows, shown, raised>>

(* CreateMutexW opens the mutex or creates it, and says which.             *)
Acquire(p) ==
  /\ at[p] = "acquiring"
  /\ \/ Ends(p, "failed") /\ UNCHANGED handles
     \/ /\ Move(p, IF Taken(p) THEN "second" ELSE "creating")
        /\ handles' = handles \cup {p}
        /\ UNCHANGED code
  /\ UNCHANGED <<argument, windows, shown, raised>>

CloseSecond(p) ==
  /\ at[p] = "second"
  /\ handles' = handles \ {p}
  /\ Move(p, "activating")
  /\ UNCHANGED <<argument, code, windows, shown, raised>>

ActivateWaiting(p) ==   \* mutated
  /\ at[p] = "activating"
  /\ windows \cap Neighbours(p) # {}
  /\ raised' = raised \cup {p} /\ Ends(p, "ok")
  /\ UNCHANGED <<argument, handles, windows, shown>>

(* The window is raised if there is one; either way the start is over.     *)
Activate(p) ==
  /\ at[p] = "activating"
  /\ raised' = IF windows \cap Neighbours(p) # {} THEN raised \cup {p} ELSE raised
  /\ Ends(p, "ok")
  /\ UNCHANGED <<argument, handles, windows, shown>>

(* An error leaves run, and main ends with code 1 once the guard is gone.  *)
Fails(p) ==
  /\ Move(p, "releasing")
  /\ code' = [code EXCEPT ![p] = "failed"]
  /\ windows' = windows \ {p}

CreateWindow(p) ==
  /\ at[p] = "creating"
  /\ \/ Fails(p)
     \/ windows' = windows \cup {p} /\ Move(p, "created") /\ UNCHANGED code
  /\ UNCHANGED <<argument, handles, shown, raised>>

(* The menu may fail, and then the window is destroyed unseen.             *)
Show(p) ==
  /\ at[p] = "created"
  /\ \/ Fails(p) /\ UNCHANGED shown
     \/ /\ shown' = shown \cup {p} /\ Move(p, "running")
        /\ UNCHANGED <<code, windows>>
  /\ UNCHANGED <<argument, handles, raised>>

Close(p) ==
  /\ at[p] = "running"
  /\ windows' = windows \ {p}
  /\ code' = [code EXCEPT ![p] = "ok"]
  /\ Move(p, "releasing")
  /\ UNCHANGED <<argument, handles, shown, raised>>

(* The context's owner is dropped, and the guard with it.                  *)
Release(p) ==
  /\ at[p] = "releasing"
  /\ handles' = handles \ {p}
  /\ Move(p, "leaving")
  /\ UNCHANGED <<argument, code, windows, shown, raised>>

Exit(p) ==
  /\ at[p] = "leaving"
  /\ Move(p, "exited")
  /\ UNCHANGED <<argument, code, handles, windows, shown, raised>>

(* Windows closes what a killed process had.                               *)
Killed(p) ==
  /\ at[p] \notin {"unstarted", "exited"}
  /\ Move(p, "exited")
  /\ code' = [code EXCEPT ![p] = "killed"]
  /\ handles' = handles \ {p} /\ windows' = windows \ {p}
  /\ UNCHANGED <<argument, shown, raised>>

Init ==
  /\ at = [p \in Starts |-> "unstarted"]
  /\ argument = [p \in Starts |-> "nothing"]
  /\ code = [p \in Starts |-> "none"]
  /\ handles = {} /\ windows = {} /\ shown = {} /\ raised = {}

(* What a process does of itself.                                          *)
Step(p) ==
  \/ Acquire(p) \/ CloseSecond(p) \/ Activate(p)
  \/ CreateWindow(p) \/ Show(p)
  \/ Release(p) \/ Exit(p)

Next ==
  \E p \in Starts :
    \/ \E line \in Arguments : Start(p, line)
    \/ Step(p) \/ Close(p) \/ Killed(p)

(* Windows schedules every process; nobody has to start one or close it.   *)
Spec == Init /\ [][Next]_vars /\ \A p \in Starts : WF_vars(Step(p))

(***************************************************************************)
(* Properties.                                                             *)
(***************************************************************************)
TypeOK ==
  /\ at \in [Starts -> {"unstarted", "acquiring", "second", "activating", "creating",
                        "created", "running", "releasing", "leaving", "exited"}]
  /\ argument \in [Starts -> Arguments]
  /\ \A p \in Starts : code[p] \in {"none", "ok", "failed", "wrong", "killed"}
  /\ handles \subseteq Starts /\ windows \subseteq Starts
  /\ shown \cup raised \subseteq {p \in Starts : argument[p] \in {"nothing", "input"}}
  /\ \A p \in Starts : at[p] = "exited" => code[p] # "none" /\ p \notin handles \cup windows

Owners == {p \in Starts : at[p] \in {"creating", "created", "running", "releasing"}}

(* One session has one owner at a time, through starts, closings, failures *)
(* and kills that overlap, and every window is an owner's (state.rs:920).  *)
OneOwner ==
  /\ \A p, q \in Owners : SessionOf[p] = SessionOf[q] => p = q
  /\ windows \subseteq Owners

(* Every start ends, or shows a window and waits for the user, whatever    *)
(* the processes beside it do (window.rs run).                             *)
StartsSettle ==
  \A p \in Starts : at[p] = "acquiring" ~> at[p] \in {"running", "exited"}

(* What the usage says (launch.rs:8): "A positional application input      *)
(* opens the graphical interface with that input prefilled."               *)
InputReachesAField ==
  \A p \in Starts : argument[p] = "input" /\ code[p] = "ok" => p \in shown

(* What README.md says of exit code 0 (README.md:246): "The window ran and *)
(* closed, or --help printed the usage."                                   *)
ZeroMeansAWindow ==
  \A p \in Starts : code[p] = "ok" => argument[p] = "help" \/ p \in shown \cup raised

(* What README.md says of the program (README.md:406): "One instance of    *)
(* the program runs at a time."                                            *)
OneInstance == Cardinality(windows) <= 1
=============================================================================

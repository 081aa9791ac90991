----------------------------- MODULE UpdateDemo -----------------------------
(***************************************************************************)
(* ota_demo_handler against the download API of mdgext_filedownload.h: the *)
(* command starts and cancels a download in turn, and init says which is   *)
(* next, also when the last call failed.  The header wants the module      *)
(* initialised before any other use; the handler goes on without.          *)
(***************************************************************************)
EXTENDS Naturals

CONSTANT MaxUpdates    \* bound: how often the command is given

ASSUME UpdateAssumption == MaxUpdates \in Nat

VARIABLES
  init,          \* 0 before the first command, 1 to start next, 2 to cancel next
  initCalls,     \* library: calls of mdgext_filedownload_init
  downloading,   \* library: a download is active
  updates        \* counts the commands

updateVars == <<init, initCalls, downloading, updates>>

UpdateInit ==
  init = 0 /\ initCalls = 0 /\ downloading = FALSE /\ updates = 0

(* From state i on: start or cancel, and the state advances in any case.   *)
Toggle(i) ==
  \E success \in BOOLEAN :
    /\ init' = IF i = 1 THEN 2 ELSE 1
    /\ downloading' = IF success THEN i = 1 ELSE downloading

OtaInitAgain ==
  /\ updates < MaxUpdates /\ updates' = updates + 1
  /\ initCalls' = initCalls + 1
  /\ Toggle(IF init = 0 THEN 1 ELSE init)

(* The first command initialises the module, and returns if that fails,    *)
(* with the flag set: the second then starts a download all the same.      *)
OtaDemo ==
  /\ updates < MaxUpdates /\ updates' = updates + 1
  /\ IF init # 0
       THEN Toggle(init) /\ UNCHANGED initCalls
       ELSE /\ initCalls' = initCalls + 1
            /\ Toggle(1) \/ (init' = 1 /\ UNCHANGED downloading)

UpdateNext == OtaDemo
=============================================================================

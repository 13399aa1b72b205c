---------------------------- MODULE MCRtosKernel ----------------------------
EXTENDS RtosKernel

MCPriority == [hi |-> 3, mid |-> 2, lo |-> 1, idle |-> 0]
MCLength == [m |-> 1, n |-> 1, q |-> 1]
MCOrder == <<"lo", "mid", "hi">>

NoIsr == [m |-> {}, n |-> {}, q |-> {}]
(* A mutex whose holder is lifted by a task with a timeout, by one that waits *)
(* for ever, or by both; the lowest task does not wait.                       *)
Inheritance ==
  [calls |-> [hi  |-> {<<"receive", "m", 1>>, <<"delay", 1>>},
              mid |-> {<<"receive", "m", 3>>, <<"delay", 1>>},
              lo  |-> {<<"receive", "m", 0>>},
              idle |-> {}],
   isr |-> NoIsr]
(* A receiver that times out, one that does not, an interrupt that sends, and *)
(* a task that is suspended and resumed in its delay.                         *)
FromInterrupt ==
  [calls |-> [hi  |-> {<<"receive", "q", 1>>},
              mid |-> {<<"receive", "q", 3>>, <<"suspend", "lo">>, <<"resume", "lo">>},
              lo  |-> {<<"delay", 2>>},
              idle |-> {}],
   isr |-> [m |-> {}, n |-> {}, q |-> {"send"}]]
(* Tasks on both sides of a queue, and an interrupt that takes from it. *)
BothSides ==
  [calls |-> [hi  |-> {<<"send", "q", 1>>, <<"delay", 1>>},
              mid |-> {<<"receive", "q", 1>>},
              lo  |-> {<<"send", "q", 3>>},
              idle |-> {}],
   isr |-> [m |-> {}, n |-> {}, q |-> {"receive"}]]
(* Priorities set and tasks suspended while they hold or await the mutex. *)
Control ==
  [calls |-> [hi  |-> {<<"prio", "lo", 1>>, <<"prio", "lo", 3>>, <<"suspend", "lo">>,
                       <<"resume", "lo">>, <<"delay", 1>>},
              mid |-> {<<"receive", "m", 3>>},
              lo  |-> {<<"receive", "m", 3>>, <<"suspend", "lo">>},
              idle |-> {}],
   isr |-> NoIsr]
(* A task that holds two mutexes and gives them back in any order. *)
TwoMutexes ==
  [calls |-> [hi  |-> {<<"receive", "n", 1>>, <<"delay", 1>>},
              mid |-> {<<"suspend", "mid">>, <<"yield">>},
              lo  |-> {<<"receive", "m", 3>>, <<"receive", "n", 3>>},
              idle |-> {}],
   isr |-> NoIsr]
(* The priority of a waiter is set before another waiter gives up. *)
Overtaken ==
  [calls |-> [hi  |-> {<<"prio", "hi", 1>>, <<"receive", "m", 3>>},
              mid |-> {<<"prio", "hi", 3>>, <<"receive", "m", 1>>, <<"delay", 1>>},
              lo  |-> {<<"receive", "m", 0>>},
              idle |-> {}],
   isr |-> NoIsr]
MCClients == {Inheritance, FromInterrupt, BothSides, Control, TwoMutexes, Overtaken}

(* The tasks of main.c that matter to the mutex of the UART: the supervisor,  *)
(* one of the two tasks in the middle, and the battery task.                  *)
FwPriority == [wdt |-> 4, cli |-> 2, bms |-> 1, idle |-> 0]
FwOrder == <<"cli", "wdt", "bms">>
FwLength == [m |-> 1]
FwClients ==
  {[calls |-> [wdt |-> {<<"receive", "m", 2>>, <<"delay", 1>>},
               cli |-> {<<"receive", "m", 2>>, <<"delay", 1>>},
               bms |-> {<<"receive", "m", 2>>},
               idle |-> {}],
    isr |-> [m |-> {}]]}
=============================================================================

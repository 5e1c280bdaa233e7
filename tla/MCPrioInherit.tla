--------------------------- MODULE MCPrioInherit ----------------------------
(* Small instances of PrioInherit for TLC: two tasks of each priority.     *)
EXTENDS PrioInherit

SharedPrios == [t \in Tasks |-> (t + 1) \div 2]

AllUses ==
    {[timed |-> {}, nested |-> FALSE], [timed |-> {}, nested |-> TRUE],
     [timed |-> Mutexes, nested |-> FALSE],
     [timed |-> Counters, nested |-> FALSE]}

TimedMutex == {[timed |-> Mutexes, nested |-> FALSE]}
=============================================================================

------------------------------ MODULE Configs -------------------------------
(***************************************************************************)
(* The configs of a database: a list of named functions that set a new     *)
(* handle up, in order.  Setting one makes a new list; a handle that was   *)
(* set up with another list is set up again before its next use.  Of what  *)
(* a config does to a handle the model keeps the key, the synchronous mode *)
(* and the hook that reports commits.                                      *)
(***************************************************************************)
EXTENDS Integers, Sequences

\* ConfigWrap.  invoke "null" is a null function, "nothing" one that
\* changes nothing here.
Wrap(name, invoke, order) == [name |-> name, invoke |-> invoke, order |-> order]

IntMax == 2147483647  \* INT_MAX

\* Database::defaultConfigs
DefaultConfigs ==
    << Wrap("trace", "nothing", 0),
       Wrap("cipher", "nothing", 1),
       Wrap("basic", "basic", 2),
       Wrap("synchronous", "null", 3),
       Wrap("checkpoint", "hook", 4),
       Wrap("tokenize", "null", 5) >>

Names(configs) == {configs[i].name : i \in DOMAIN configs}

\* setConfig of a name: in its place, or last.
SetConfig(configs, name, invoke) ==
    IF name \in Names(configs)
    THEN [i \in DOMAIN configs |->
             IF configs[i].name = name THEN Wrap(name, invoke, configs[i].order) ELSE configs[i]]
    ELSE Append(configs, Wrap(name, invoke, IntMax))

\* The first config that comes after the order, past the end if none does.
FirstAfter(configs, order) ==
    CHOOSE i \in 1..Len(configs)+1 :
        /\ i =< Len(configs) => order < configs[i].order
        /\ \A j \in 1..i-1 : order >= configs[j].order

\* The configs of other names.
Others(configs, name) ==
    LET kept[n \in 0..Len(configs)] ==
            IF n = 0 THEN <<>>
            ELSE IF configs[n].name = name THEN kept[n - 1] ELSE Append(kept[n - 1], configs[n])
    IN  kept[Len(configs)]

\* setConfig with an order.  The turn of the loop that inserts the new
\* config does not copy the one it is inserted before.
SetConfigAt(configs, name, invoke, order) ==
    LET at == FirstAfter(configs, order)
    IN  Others(SubSeq(configs, 1, at - 1), name)
            \o <<Wrap(name, invoke, order)>> \o Others(SubSeq(configs, at + 1, Len(configs)), name)

\* What an open handle knows, and whether its configs are the pool's.
Handle == [ok : BOOLEAN, key : BOOLEAN, full : BOOLEAN, hook : BOOLEAN, current : BOOLEAN]

NewHandle == [ok |-> TRUE, key |-> FALSE, full |-> FALSE, hook |-> FALSE, current |-> TRUE]

SetCipherKey(h) == [h EXCEPT !.key = TRUE]

\* Mutant: the basic config leaves the synchronous mode alone.
Apply_KeepsMode(h, invoke, keyed) ==
    IF ~ h.ok THEN h
    ELSE CASE invoke = "key" -> SetCipherKey(h)
           [] invoke = "basic" -> [h EXCEPT !.ok = h.key \in keyed]
           [] invoke = "full" -> [h EXCEPT !.full = TRUE, !.ok = h.key \in keyed]
           [] invoke = "hook" -> [h EXCEPT !.hook = TRUE]
           [] OTHER -> h

\* One config on a handle whose file reads with the key or without; the
\* first that fails ends the set-up.
Apply(h, invoke, keyed) ==
    IF ~ h.ok THEN h
    ELSE CASE invoke = "key" -> SetCipherKey(h)
           [] invoke = "basic" -> [h EXCEPT !.full = FALSE, !.ok = h.key \in keyed]
           [] invoke = "full" -> [h EXCEPT !.full = TRUE, !.ok = h.key \in keyed]
           [] invoke = "hook" -> [h EXCEPT !.hook = TRUE]
           [] OTHER -> h

\* Mutant: the configs are invoked last to first.
Invoke_Backwards(configs, start, keyed) ==
    LET after[n \in 0..Len(configs)] ==
            IF n = 0 THEN start
            ELSE Apply(after[n - 1], configs[Len(configs) - n + 1].invoke, keyed)
    IN  [after[Len(configs)] EXCEPT !.current = TRUE]

Invoke(configs, start, keyed) ==
    LET after[n \in 0..Len(configs)] ==
            IF n = 0 THEN start ELSE Apply(after[n - 1], configs[n].invoke, keyed)
    IN  [after[Len(configs)] EXCEPT !.current = TRUE]

=============================================================================

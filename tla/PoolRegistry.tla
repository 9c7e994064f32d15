---------------------------- MODULE PoolRegistry ----------------------------
(***************************************************************************)
(* HandlePool::s_pools: the pools by path, each with a count of the        *)
(* Database objects that use it.  A Database finds its pool by its path,   *)
(* and makes it if there is none, or by a tag somebody has given to it.    *)
(* Every operation holds s_mutex from its first line to its last.          *)
(***************************************************************************)
EXTENDS Integers, Sequences

CONSTANTS
    Path,
    Object,   \* the Database objects there can be at once
    Tag       \* the tags, other than InvalidTag

VARIABLES
    s_pools,   \* pool and count for each path that has an entry
    pools,     \* every pool made so far: its path and tag
    object,    \* the pool of each Database object, 0 when there is no object
    byTag,     \* history: the objects that found their pool by its tag
    released,  \* history: one of them has been released
    undefined  \* recycle has looked at an entry that is not there

registryVars == <<s_pools, pools, object, byTag, released, undefined>>

InvalidTag == 0

RegistryInit ==
    /\ s_pools = [p \in {} |-> 0]
    /\ pools = <<>>
    /\ object = [o \in Object |-> 0]
    /\ byTag = {}
    /\ released = FALSE
    /\ undefined = FALSE

\* Put an entry into the map, or another in its place.
With(map, p, entry) == [q \in DOMAIN map \cup {p} |-> IF q = p THEN entry ELSE map[q]]

Without(map, p) == [q \in DOMAIN map \ {p} |-> map[q]]

\* Mutant: an entry that is there is used without counting.
GetPoolOfPath_NoCount(o, p) ==
    /\ object[o] = 0
    /\ IF p \in DOMAIN s_pools
       THEN /\ object' = [object EXCEPT ![o] = s_pools[p].pool]
            /\ UNCHANGED <<s_pools, pools>>
       ELSE /\ pools' = Append(pools, [path |-> p, tag |-> InvalidTag])
            /\ s_pools' = With(s_pools, p, [pool |-> Len(pools'), count |-> 1])
            /\ object' = [object EXCEPT ![o] = Len(pools')]
    /\ UNCHANGED <<byTag, released, undefined>>

GetPoolOfPath(o, p) ==
    /\ object[o] = 0
    /\ IF p \in DOMAIN s_pools
       THEN /\ s_pools' = [s_pools EXCEPT ![p].count = @ + 1]
            /\ object' = [object EXCEPT ![o] = s_pools[p].pool]
            /\ UNCHANGED pools
       ELSE /\ pools' = Append(pools, [path |-> p, tag |-> InvalidTag])
            /\ s_pools' = With(s_pools, p, [pool |-> Len(pools'), count |-> 1])
            /\ object' = [object EXCEPT ![o] = Len(pools')]
    /\ UNCHANGED <<byTag, released, undefined>>

\* By tag: the loop counts in a copy of the entry, which is then gone.
GetPoolOfTag(o, tag) ==
    /\ object[o] = 0
    /\ \E p \in DOMAIN s_pools :
        /\ pools[s_pools[p].pool].tag = tag
        /\ object' = [object EXCEPT ![o] = s_pools[p].pool]
    /\ byTag' = byTag \cup {o}
    /\ UNCHANGED <<s_pools, pools, released, undefined>>

\* The last reference to an object's pool counts down the entry of its path,
\* whichever pool that is by now.
Recycle(o) ==
    /\ object[o] # 0
    /\ LET p == pools[object[o]].path
       IN  IF p \notin DOMAIN s_pools
           THEN undefined' = TRUE /\ UNCHANGED s_pools
           ELSE /\ s_pools' = IF s_pools[p].count = 1 THEN Without(s_pools, p)
                              ELSE [s_pools EXCEPT ![p].count = @ - 1]
                /\ UNCHANGED undefined
    /\ object' = [object EXCEPT ![o] = 0]
    /\ released' = (released \/ o \in byTag)
    /\ byTag' = byTag \ {o}
    /\ UNCHANGED pools

\* setTag
SetTag(o, tag) ==
    /\ object[o] # 0
    /\ pools' = [pools EXCEPT ![object[o]].tag = tag]
    /\ UNCHANGED <<s_pools, object, byTag, released, undefined>>

-----------------------------------------------------------------------------
(* Properties                                                              *)

RegistryTypeOK ==
    /\ DOMAIN s_pools \subseteq Path
    /\ \A p \in DOMAIN s_pools :
        s_pools[p] \in [pool : 1..Len(pools), count : Nat \ {0}]
    /\ pools \in Seq([path : Path, tag : Tag \cup {InvalidTag}])
    /\ object \in [Object -> 0..Len(pools)]
    /\ byTag \subseteq Object
    /\ {released, undefined} \subseteq BOOLEAN

=============================================================================

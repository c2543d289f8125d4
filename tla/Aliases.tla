------------------------------ MODULE Aliases ------------------------------
(***************************************************************************)
(* The path aliases of one Subscribe session: the two maps of              *)
(* clientAliases, the requests that change them, the announcements that    *)
(* follow, and the responses of run() goroutines whose prefix is replaced  *)
(* by its alias meanwhile.                                                 *)
(*                                                                         *)
(* src/server/aliases.go    updateServerAliases, updateClientAlias,        *)
(*                          updateClientAliases, ToPath, ToAlias           *)
(* src/server/subscribe.go  clientAliasesUpdate, serverAliasesUpdate       *)
(*                                                                         *)
(* A call of updateServerAliases and of updateClientAlias is one step: it  *)
(* holds clientAliases.mutex.  A list of client aliases is several steps.  *)
(* IsServer is left out: only the removal of the server's aliases, which   *)
(* has no caller in the server, reads it.                                  *)
(***************************************************************************)
EXTENDS Integers, Sequences, FiniteSets

CONSTANTS
    Names,      \* alias names, with their '#'
    Paths,      \* the data paths
    Server,     \* serverAliases: the names of the target with their paths
    None,       \* no path, no name
    Runs,       \* the run() goroutines of the session
    ClientPaths,  \* the paths that the client defines aliases for
    QueueCap,   \* bound: responses under way
    MaxUpdates  \* bound: alias requests of the client

ASSUME AliasesAssumption ==
    /\ Server \in [DOMAIN Server -> Paths] /\ DOMAIN Server \subseteq Names
    /\ IsFiniteSet(DOMAIN Server)
    /\ None \notin Names \cup Paths /\ Names \cap Paths = {}
    /\ ClientPaths \subseteq Paths
    /\ QueueCap \in Nat /\ MaxUpdates \in Nat

VARIABLES
    alias2path,   \* Alias2Path: the path of a name, or None
    path2alias,   \* Path2Alias: the name of a path, or None
    hpc,          \* where the handler of the session stands
    list,         \* the client aliases left of the request
    announce,     \* the names it has still to announce
    hand,         \* hand[r]: the prefix that r took for its response, or None
    queue,        \* respchan
    table,        \* what the client was told its names stand for
    updates       \* alias requests so far

mapVars == <<alias2path, path2alias>>
vars    == <<mapVars, hpc, list, announce, hand, queue, table, updates>>

\* ToPath() of a name and ToAlias() of a path: what is unknown stays as it is.
ToPath(n)  == IF alias2path[n] # None THEN alias2path[n] ELSE n
ToAlias(q) == IF path2alias[q] # None THEN path2alias[q] ELSE q

\* An alias of a request: a definition, or a deletion when path is None.
ClientAliases == [name : Names, path : ClientPaths \cup {None}]

-----------------------------------------------------------------------------
Init ==
    /\ alias2path = [n \in Names |-> None]
    /\ path2alias = [q \in Paths |-> None]
    /\ hpc = "recv"
    /\ list = <<>>
    /\ announce = <<>>
    /\ hand = [r \in Runs |-> None]
    /\ queue = <<>>
    /\ table = [n \in Names |-> n]
    /\ updates = 0

\* The server aliases whose name is free are added.  Two of them may have the
\* same path: the order in which Go ranges over the map decides.  A client's
\* alias of such a path keeps its name, but the path gets the new one.
UpdateServerAliases ==
    /\ hpc = "recv" /\ updates < MaxUpdates
    /\ updates' = updates + 1
    /\ LET new == {n \in DOMAIN Server : alias2path[n] = None}
           of(q) == {n \in new : Server[n] = q}
       IN  /\ alias2path' = [n \in Names |-> IF n \in new THEN Server[n] ELSE alias2path[n]]
           /\ \E last \in [Paths -> Names] :
                /\ \A q \in Paths : of(q) # {} => last[q] \in of(q)
                /\ path2alias' = [q \in Paths |-> IF of(q) # {} THEN last[q] ELSE path2alias[q]]
           /\ \E s \in [1 .. Cardinality(new) -> new] :
                /\ {s[i] : i \in DOMAIN s} = new
                /\ announce' = s
    /\ hpc' = "announce"
    /\ UNCHANGED <<list, hand, queue, table>>

\* A request with a list of client aliases.
AliasRequest(l) ==
    /\ hpc = "recv" /\ updates < MaxUpdates
    /\ updates' = updates + 1
    /\ list' = l
    /\ hpc' = "update"
    /\ UNCHANGED <<mapVars, announce, hand, queue, table>>

\* Mutant: the path keeps the deleted name.
DeleteNameOnly ==
    /\ hpc = "update" /\ list # <<>> /\ Head(list).path = None
    /\ LET n == Head(list).name
       IN  /\ alias2path' = [alias2path EXCEPT ![n] = None]
           /\ announce' = Append(announce, n)
    /\ list' = Tail(list)
    /\ UNCHANGED <<path2alias, hpc, hand, queue, table, updates>>

\* updateClientAlias() deletes: the name, and the name of the path it had, even
\* if that is another's.
DeleteAlias ==
    /\ hpc = "update" /\ list # <<>> /\ Head(list).path = None
    /\ LET n == Head(list).name
           q == alias2path[n]
       IN  /\ alias2path' = [alias2path EXCEPT ![n] = None]
           /\ path2alias' = IF q # None THEN [path2alias EXCEPT ![q] = None] ELSE path2alias
           /\ announce' = Append(announce, n)
    /\ list' = Tail(list)
    /\ UNCHANGED <<hpc, hand, queue, table, updates>>

\* Mutant: two names for one path.
TakenName(e) == alias2path[e.name] # None

\* ... and defines, when neither the path nor the name is taken.
Taken(e) == path2alias[e.path] # None \/ alias2path[e.name] # None

\* Mutant: the client is not told of an alias that it has defined itself.
DefineQuietly ==
    /\ hpc = "update" /\ list # <<>> /\ Head(list).path # None /\ ~ Taken(Head(list))
    /\ LET e == Head(list)
       IN  /\ alias2path' = [alias2path EXCEPT ![e.name] = e.path]
           /\ path2alias' = [path2alias EXCEPT ![e.path] = e.name]
    /\ list' = Tail(list)
    /\ UNCHANGED <<hpc, announce, hand, queue, table, updates>>

DefineAlias ==
    /\ hpc = "update" /\ list # <<>> /\ Head(list).path # None /\ ~ Taken(Head(list))
    /\ LET e == Head(list)
       IN  /\ alias2path' = [alias2path EXCEPT ![e.name] = e.path]
           /\ path2alias' = [path2alias EXCEPT ![e.path] = e.name]
           /\ announce' = Append(announce, e.name)
    /\ list' = Tail(list)
    /\ UNCHANGED <<hpc, hand, queue, table, updates>>

\* Mutant: an error keeps the aliases before it from being announced.
ListFails ==
    /\ hpc = "update"
    /\ list' = <<>>
    /\ hpc' = IF list = <<>> THEN "announce" ELSE "done"
    /\ UNCHANGED <<mapVars, announce, hand, queue, table, updates>>

\* updateClientAliases() ends with its list, or at the first error: the name or
\* the path is not valid, or taken.
ListDone ==
    /\ hpc = "update"
    /\ list' = <<>>
    /\ hpc' = IF list = <<>> THEN "announce" ELSE "fail"
    /\ UNCHANGED <<mapVars, announce, hand, queue, table, updates>>

\* Mutant: a deleted name is announced with no path.
AnnounceNone ==
    /\ hpc \in {"announce", "fail"} /\ announce # <<>>
    /\ Len(queue) < QueueCap
    /\ LET n == Head(announce)
       IN  queue' = Append(queue, [kind |-> "alias", name |-> n, path |-> alias2path[n],
                                   stale |-> FALSE])
    /\ announce' = Tail(announce)
    /\ UNCHANGED <<mapVars, hpc, list, hand, table, updates>>

\* respchan.Send() of one announcement: the path is looked up only now, and a
\* name that was deleted is announced as itself.  Nobody but the handler changes
\* the maps, so that the look-up and Send() are one step.
Announce ==
    /\ hpc \in {"announce", "fail"} /\ announce # <<>>
    /\ Len(queue) < QueueCap
    /\ LET n == Head(announce)
       IN  queue' = Append(queue, [kind |-> "alias", name |-> n, path |-> ToPath(n),
                                   stale |-> FALSE])
    /\ announce' = Tail(announce)
    /\ UNCHANGED <<mapVars, hpc, list, hand, table, updates>>

\* After an error the RPC ends.
Announced ==
    /\ hpc \in {"announce", "fail"} /\ announce = <<>>
    /\ hpc' = IF hpc = "fail" THEN "done" ELSE "recv"
    /\ UNCHANGED <<mapVars, list, announce, hand, queue, table, updates>>

\* A run() goroutine has data below the path q: the prefix is ToAlias(q) ...
RunPrefix(r, q) ==
    /\ hand[r] = None
    /\ hand' = [hand EXCEPT ![r] = [name |-> path2alias[q], path |-> q]]
    /\ UNCHANGED <<mapVars, hpc, list, announce, queue, table, updates>>

\* ... and it sends them, when there is room in respchan.  By then the alias may
\* have been deleted or defined: the prefix is stale.
RunSend(r) ==
    /\ hand[r] # None
    /\ Len(queue) < QueueCap
    /\ LET h == hand[r]
       IN  queue' = Append(queue, [kind |-> "data", name |-> h.name, path |-> h.path,
                                   stale |-> path2alias[h.path] # h.name])
    /\ hand' = [hand EXCEPT ![r] = None]
    /\ UNCHANGED <<mapVars, hpc, list, announce, table, updates>>

\* The client receives a response.
Receive ==
    /\ queue # <<>>
    /\ LET m == Head(queue)
       IN  table' = IF m.kind = "alias" THEN [table EXCEPT ![m.name] = m.path] ELSE table
    /\ queue' = Tail(queue)
    /\ UNCHANGED <<mapVars, hpc, list, announce, hand, updates>>

Next ==
    \/ UpdateServerAliases
    \/ \E e \in ClientAliases : AliasRequest(<<e>>) \/ \E f \in ClientAliases : AliasRequest(<<e, f>>)
    \/ DeleteAlias \/ DefineAlias \/ ListDone \/ Announce \/ Announced
    \/ \E r \in Runs : RunSend(r) \/ \E q \in Paths : RunPrefix(r, q)
    \/ Receive

Spec == Init /\ [][Next]_vars

-----------------------------------------------------------------------------
Responses ==
    [kind : {"alias", "data"}, name : Names \cup {None}, path : Paths \cup Names,
     stale : BOOLEAN]
Prefixes == [name : Names \cup {None}, path : Paths]

TypeOK ==
    /\ alias2path \in [Names -> Paths \cup {None}]
    /\ path2alias \in [Paths -> Names \cup {None}]
    /\ hpc \in {"recv", "update", "announce", "fail", "done"}
    /\ list \in Seq(ClientAliases)
    /\ announce \in Seq(Names)
    /\ hand \in [Runs -> Prefixes \cup {None}]
    /\ queue \in Seq(Responses)
    /\ table \in [Names -> Paths \cup Names]
    /\ updates \in 0 .. MaxUpdates

\* The alias put in place of a path leads back to it: ToPath(ToAlias(q)) = q,
\* though aliases of the server and of the client may have the same path and
\* are defined and deleted in any order.  (updateServerAliases,
\* updateClientAlias)
AliasLeadsBack == \A q \in Paths : path2alias[q] # None => ToPath(ToAlias(q)) = q

\* Every name is the alias of its path, as long as the path is the business of
\* one alias of the server, or of the client, alone.  Where several have the same
\* path the deletion of one name may take the path from another.
Apart(q) ==
    \/ q \notin ClientPaths /\ Cardinality({n \in DOMAIN Server : Server[n] = q}) = 1
    \/ q \in ClientPaths /\ \A n \in DOMAIN Server : Server[n] # q
NamesLeadBack ==
    \A n \in Names : alias2path[n] # None /\ Apart(alias2path[n]) => ToAlias(ToPath(n)) = n

\* When nothing is under way, the client's names stand for what they stand for
\* in the server: every change was announced, also those made before an error.
ClientKnows ==
    hpc \in {"recv", "done"} /\ queue = <<>> => \A n \in Names : table[n] = ToPath(n)

\* The client takes n for the path v when the i-th of the responses under way
\* comes.
IsAlias(m, n) == m.kind = "alias" /\ m.name = n
Heard(i, n, v) ==
    \/ \E j \in 1 .. i - 1 :
         /\ IsAlias(queue[j], n) /\ queue[j].path = v
         /\ \A k \in j + 1 .. i - 1 : ~ IsAlias(queue[k], n)
    \/ table[n] = v /\ \A k \in 1 .. i - 1 : ~ IsAlias(queue[k], n)

\* A run() uses a new alias before its announcement is in respchan, so that the
\* client may get a prefix it does not know; but then an announcement of that
\* name is on its way, unless the alias was changed between ToAlias() and Send().
PrefixesKnown ==
    \A i \in DOMAIN queue :
        LET m == queue[i]
        IN  m.kind = "data" /\ m.name # None /\ ~ m.stale =>
                \/ Heard(i, m.name, m.path)
                \/ \E j \in i + 1 .. Len(queue) : IsAlias(queue[j], m.name)
                \/ \E j \in DOMAIN announce : announce[j] = m.name
=============================================================================

---------------------------- MODULE AliasesProofs ----------------------------
(* The name put in place of a path leads back to it, and the client gets to   *)
(* know every name, for any aliases of the server and of the client.          *)
EXTENDS Aliases, FiniteSetTheorems, TLAPS

AliasInv ==
    /\ alias2path \in [Names -> Paths \cup {None}]
    /\ path2alias \in [Paths -> Names \cup {None}]
    /\ list \in Seq(ClientAliases)
    /\ \A q \in Paths : path2alias[q] # None => alias2path[path2alias[q]] = q

LEMMA AliasInit == Init => AliasInv
  BY DEF Init, AliasInv

\* What the two maps say of each other is what ToPath and ToAlias compute.
LEMMA MapsLeadBack == AliasInv => AliasLeadsBack
  BY AliasesAssumption DEF AliasesAssumption, AliasInv, AliasLeadsBack, ToPath, ToAlias

\* The server's aliases take free names only, so that no path loses the name it
\* has; the path of a new name gets one that is new, too.
LEMMA ServerStep ==
  ASSUME AliasInv, UpdateServerAliases
  PROVE  AliasInv'
<1> DEFINE new == {n \in DOMAIN Server : alias2path[n] = None}
           of(q) == {n \in new : Server[n] = q}
<1>1. alias2path' = [n \in Names |-> IF n \in new THEN Server[n] ELSE alias2path[n]]
  BY DEF UpdateServerAliases
<1>2. PICK last \in [Paths -> Names] :
        /\ \A q \in Paths : of(q) # {} => last[q] \in of(q)
        /\ path2alias' = [q \in Paths |-> IF of(q) # {} THEN last[q] ELSE path2alias[q]]
  BY DEF UpdateServerAliases
<1>3. list' = list
  BY DEF UpdateServerAliases
<1>4. \A n \in new : n \in Names /\ Server[n] \in Paths
  BY AliasesAssumption DEF AliasesAssumption
<1>5. alias2path' \in [Names -> Paths \cup {None}]
  BY <1>1, <1>4 DEF AliasInv
<1>6. path2alias' \in [Paths -> Names \cup {None}]
  BY <1>2 DEF AliasInv
<1>7. ASSUME NEW q \in Paths, path2alias'[q] # None
      PROVE  alias2path'[path2alias'[q]] = q
  <2>1. CASE of(q) # {}
    <3>1. path2alias'[q] = last[q] /\ last[q] \in new /\ Server[last[q]] = q
      BY <1>2, <2>1
    <3> QED
      BY <1>1, <1>4, <3>1
  <2>2. CASE of(q) = {}
    <3>1. path2alias'[q] = path2alias[q] /\ path2alias[q] \in Names
      BY <1>2, <1>7, <2>2 DEF AliasInv
    <3>2. alias2path[path2alias[q]] = q
      BY <1>7, <3>1 DEF AliasInv
    <3>3. path2alias[q] \notin new
      BY <3>2, AliasesAssumption DEF AliasesAssumption
    <3> QED
      BY <1>1, <3>1, <3>2, <3>3
  <2> QED
    BY <2>1, <2>2
<1> QED
  BY <1>3, <1>5, <1>6, <1>7 DEF AliasInv

\* The deletion of a name takes the name from its path: no other path had it.
LEMMA DeleteStep ==
  ASSUME AliasInv, DeleteAlias
  PROVE  AliasInv'
<1>1. list # <<>> /\ Head(list) \in ClientAliases /\ list' = Tail(list)
  BY DEF DeleteAlias, AliasInv
<1> DEFINE n == Head(list).name
           q == alias2path[n]
<1>2. n \in Names
  BY <1>1 DEF ClientAliases
<1>3. alias2path' = [alias2path EXCEPT ![n] = None]
  BY DEF DeleteAlias
<1>4. path2alias' = IF q # None THEN [path2alias EXCEPT ![q] = None] ELSE path2alias
  BY DEF DeleteAlias
<1>5. list' \in Seq(ClientAliases)
  BY <1>1 DEF AliasInv
<1>6. alias2path' \in [Names -> Paths \cup {None}] /\ path2alias' \in [Paths -> Names \cup {None}]
  BY <1>2, <1>3, <1>4 DEF AliasInv
<1>7. ASSUME NEW r \in Paths, path2alias'[r] # None
      PROVE  alias2path'[path2alias'[r]] = r
  <2>1. q \in Paths \cup {None} /\ r # None
    BY <1>2, AliasesAssumption DEF AliasInv, AliasesAssumption
  <2>2. path2alias'[r] = path2alias[r] /\ path2alias[r] \in Names /\ r # q
    BY <1>4, <1>7, <2>1 DEF AliasInv
  <2>3. alias2path[path2alias[r]] = r
    BY <1>7, <2>2 DEF AliasInv
  <2>4. path2alias[r] # n
    BY <2>2, <2>3
  <2> QED
    BY <1>2, <1>3, <2>2, <2>3, <2>4 DEF AliasInv
<1> QED
  BY <1>5, <1>6, <1>7 DEF AliasInv

\* A definition takes a free name and a path without one.
LEMMA DefineStep ==
  ASSUME AliasInv, DefineAlias
  PROVE  AliasInv'
<1> DEFINE e == Head(list)
<1>1. list # <<>> /\ e \in ClientAliases /\ e.path # None /\ ~ Taken(e)
  BY DEF DefineAlias, AliasInv
<1>2. e.name \in Names /\ e.path \in Paths
  BY <1>1, AliasesAssumption DEF ClientAliases, AliasesAssumption
<1>3. /\ alias2path' = [alias2path EXCEPT ![e.name] = e.path]
      /\ path2alias' = [path2alias EXCEPT ![e.path] = e.name]
      /\ list' = Tail(list)
  BY DEF DefineAlias
<1>4. list' \in Seq(ClientAliases)
  BY <1>1, <1>3 DEF AliasInv
<1>5. alias2path' \in [Names -> Paths \cup {None}] /\ path2alias' \in [Paths -> Names \cup {None}]
  BY <1>2, <1>3 DEF AliasInv
<1>6. ASSUME NEW r \in Paths, path2alias'[r] # None
      PROVE  alias2path'[path2alias'[r]] = r
  <2>1. CASE r = e.path
    BY <1>2, <1>3, <2>1 DEF AliasInv
  <2>2. CASE r # e.path
    <3>1. path2alias'[r] = path2alias[r] /\ path2alias[r] \in Names /\ alias2path[path2alias[r]] = r
      BY <1>2, <1>3, <1>6, <2>2 DEF AliasInv
    <3>2. alias2path[e.name] = None /\ r # None
      BY <1>1, AliasesAssumption DEF Taken, AliasesAssumption
    <3> QED
      BY <1>2, <1>3, <3>1, <3>2 DEF AliasInv
  <2> QED
    BY <2>1, <2>2
<1> QED
  BY <1>4, <1>5, <1>6 DEF AliasInv

LEMMA AliasStep == AliasInv /\ [Next]_vars => AliasInv'
<1> SUFFICES ASSUME AliasInv, [Next]_vars
             PROVE  AliasInv'
  OBVIOUS
<1>1. CASE UpdateServerAliases
  BY <1>1, ServerStep
<1>2. CASE DeleteAlias
  BY <1>2, DeleteStep
<1>3. CASE DefineAlias
  BY <1>3, DefineStep
<1>4. ASSUME NEW e \in ClientAliases, AliasRequest(<<e>>)
      PROVE  AliasInv'
  BY <1>4 DEF AliasRequest, AliasInv, mapVars
<1>5. ASSUME NEW e \in ClientAliases, NEW f \in ClientAliases, AliasRequest(<<e, f>>)
      PROVE  AliasInv'
  BY <1>5 DEF AliasRequest, AliasInv, mapVars
<1>6. CASE ListDone
  BY <1>6 DEF ListDone, AliasInv, mapVars
<1>7. CASE Announce \/ Announced \/ Receive \/ UNCHANGED vars
  BY <1>7 DEF Announce, Announced, Receive, vars, AliasInv, mapVars
<1>8. ASSUME NEW r \in Runs, NEW q \in Paths, RunPrefix(r, q)
      PROVE  AliasInv'
  BY <1>8 DEF RunPrefix, AliasInv, mapVars
<1>9. \A r \in Runs : RunSend(r) => AliasInv'
  BY DEF RunSend, AliasInv, mapVars
<1> QED
  BY <1>1, <1>2, <1>3, <1>4, <1>5, <1>6, <1>7, <1>8, <1>9 DEF Next

\* The name that takes the place of a path in the prefix of a response leads
\* back to that path, however aliases are defined and deleted.  (ToAlias, ToPath)
THEOREM NameLeadsBack == Spec => []AliasLeadsBack
<1> QED
  BY AliasInit, AliasStep, MapsLeadBack, PTL DEF Spec

-----------------------------------------------------------------------------
(* Types.                                                                   *)

LEMMA NewFinite ==
  ASSUME NEW S \in SUBSET DOMAIN Server
  PROVE  Cardinality(S) \in Nat /\ IsFiniteSet(S)
BY AliasesAssumption, FS_Subset, FS_CardinalityType DEF AliasesAssumption

LEMMA TypeInit == Init => TypeOK
<1> SUFFICES ASSUME Init PROVE TypeOK
  OBVIOUS
<1>1. \A S : <<>> \in Seq(S)
  OBVIOUS
<1> QED
  BY <1>1, AliasesAssumption DEF AliasesAssumption, Init, TypeOK

LEMMA AnnouncesType ==
  ASSUME NEW s \in Seq(Names), NEW n \in Names
  PROVE  Append(s, n) \in Seq(Names) /\ (s # <<>> => Head(s) \in Names /\ Tail(s) \in Seq(Names))
OBVIOUS

LEMMA ResponsesType ==
  ASSUME NEW s \in Seq(Responses), NEW m \in Responses
  PROVE  /\ Append(s, m) \in Seq(Responses)
         /\ s # <<>> => Head(s) \in Responses /\ Tail(s) \in Seq(Responses)
OBVIOUS

LEMMA ToPathType ==
  ASSUME AliasInv, NEW n \in Names
  PROVE  ToPath(n) \in Paths \cup Names
BY DEF AliasInv, ToPath

LEMMA TypeStep ==
  ASSUME TypeOK, AliasInv, AliasInv', [Next]_vars
  PROVE  TypeOK'
<1>1. /\ alias2path' \in [Names -> Paths \cup {None}] /\ path2alias' \in [Paths -> Names \cup {None}]
      /\ list' \in Seq(ClientAliases)
  BY DEF AliasInv
<1> DEFINE Rest ==
      /\ hpc' \in {"recv", "update", "announce", "fail", "done"}
      /\ announce' \in Seq(Names)
      /\ hand' \in [Runs -> Prefixes \cup {None}]
      /\ queue' \in Seq(Responses)
      /\ table' \in [Names -> Paths \cup Names]
      /\ updates' \in 0 .. MaxUpdates
<1>2. Rest => TypeOK'
  BY <1>1 DEF TypeOK
<1>3. CASE UpdateServerAliases
  <2> DEFINE new == {n \in DOMAIN Server : alias2path[n] = None}
  <2>1. PICK s \in [1 .. Cardinality(new) -> new] : announce' = s
    BY <1>3 DEF UpdateServerAliases
  <2>2. new \subseteq Names /\ Cardinality(new) \in Nat
    BY NewFinite, AliasesAssumption DEF AliasesAssumption
  <2> HIDE DEF new
  <2>3. announce' \in Seq(Names)
    BY <2>1, <2>2
  <2>4. updates' \in 0 .. MaxUpdates
    BY <1>3, AliasesAssumption DEF AliasesAssumption, UpdateServerAliases, TypeOK
  <2> QED
    BY <1>2, <1>3, <2>3, <2>4 DEF UpdateServerAliases, TypeOK
<1>4. ASSUME NEW l, AliasRequest(l) PROVE TypeOK'
  <2>1. updates' \in 0 .. MaxUpdates
    BY <1>4, AliasesAssumption DEF AliasesAssumption, AliasRequest, TypeOK
  <2> QED
    BY <1>2, <1>4, <2>1 DEF AliasRequest, TypeOK, mapVars
<1>5. CASE DeleteAlias \/ DefineAlias
  <2>1. Head(list) \in ClientAliases
    BY <1>5 DEF DeleteAlias, DefineAlias, TypeOK
  <2>2. Head(list).name \in Names
    BY <2>1 DEF ClientAliases
  <2>3. announce' = Append(announce, Head(list).name) /\ announce \in Seq(Names)
    BY <1>5 DEF DeleteAlias, DefineAlias, TypeOK
  <2>4. announce' \in Seq(Names)
    BY <2>2, <2>3, AnnouncesType
  <2> QED
    BY <1>2, <1>5, <2>4 DEF DeleteAlias, DefineAlias, TypeOK
<1>6. CASE ListDone \/ Announced \/ UNCHANGED vars
  BY <1>2, <1>6 DEF ListDone, Announced, vars, TypeOK, mapVars
<1>7. CASE Announce
  <2>1. announce \in Seq(Names) /\ announce # <<>> /\ queue \in Seq(Responses)
    BY <1>7 DEF Announce, TypeOK
  <2>2. Head(announce) \in Names /\ Tail(announce) \in Seq(Names)
    BY <2>1
  <2>3. [kind |-> "alias", name |-> Head(announce), path |-> ToPath(Head(announce)),
         stale |-> FALSE] \in Responses
    BY <2>2, ToPathType DEF Responses
  <2>4. queue' \in Seq(Responses) /\ announce' \in Seq(Names)
    BY <1>7, <2>1, <2>2, <2>3, ResponsesType DEF Announce
  <2> QED
    BY <1>2, <1>7, <2>4 DEF Announce, TypeOK, mapVars
<1>8. ASSUME NEW r \in Runs, RunSend(r) PROVE TypeOK'
  <2>1. hand[r] \in Prefixes
    BY <1>8 DEF RunSend, TypeOK
  <2>2. [kind |-> "data", name |-> hand[r].name, path |-> hand[r].path,
         stale |-> path2alias[hand[r].path] # hand[r].name] \in Responses
    BY <2>1 DEF Responses, Prefixes
  <2>3. queue' \in Seq(Responses)
    BY <1>8, <2>2, ResponsesType DEF RunSend, TypeOK
  <2>4. hand' \in [Runs -> Prefixes \cup {None}]
    BY <1>8 DEF RunSend, TypeOK
  <2> QED
    BY <1>2, <1>8, <2>3, <2>4 DEF RunSend, TypeOK, mapVars
<1>10. ASSUME NEW r \in Runs, NEW q \in Paths, RunPrefix(r, q) PROVE TypeOK'
  <2>1. [name |-> path2alias[q], path |-> q] \in Prefixes
    BY DEF Prefixes, TypeOK
  <2>2. hand' \in [Runs -> Prefixes \cup {None}]
    BY <1>10, <2>1 DEF RunPrefix, TypeOK
  <2> QED
    BY <1>2, <1>10, <2>2 DEF RunPrefix, TypeOK, mapVars
<1>9. CASE Receive
  <2>1. queue \in Seq(Responses) /\ queue # <<>>
    BY <1>9 DEF Receive, TypeOK
  <2>2. Head(queue) \in Responses /\ Tail(queue) \in Seq(Responses)
    BY <2>1
  <2>3. /\ Head(queue).path \in Paths \cup Names
        /\ queue' = Tail(queue)
        /\ table' = IF Head(queue).kind = "alias"
                    THEN [table EXCEPT ![Head(queue).name] = Head(queue).path] ELSE table
    BY <1>9, <2>2 DEF Receive, Responses
  <2>4. table' \in [Names -> Paths \cup Names]
    BY <2>3 DEF TypeOK
  <2> QED
    BY <1>2, <1>9, <2>2, <2>3, <2>4 DEF Receive, TypeOK, mapVars
<1> QED
  BY <1>3, <1>4, <1>5, <1>6, <1>7, <1>8, <1>9, <1>10 DEF Next

-----------------------------------------------------------------------------
(* Names of one owner lead back, too.                                       *)

\* A path that is not the client's has its names from the server.
OwnersOK ==
    \A n \in Names :
        alias2path[n] \notin ClientPaths \cup {None} =>
            n \in DOMAIN Server /\ Server[n] = alias2path[n]

NamesInv == OwnersOK /\ NamesLeadBack

\* A path that is the business of one alias of the server has one name there.
LEMMA ApartServer ==
  ASSUME NEW q, Apart(q), q \notin ClientPaths,
         NEW m \in DOMAIN Server, NEW n \in DOMAIN Server, Server[m] = q, Server[n] = q
  PROVE  m = n
<1> DEFINE S == {x \in DOMAIN Server : Server[x] = q}
<1>1. Cardinality(S) = 1
  BY DEF Apart
<1>2. IsFiniteSet(S)
  BY NewFinite
<1>3. m \in S /\ n \in S
  OBVIOUS
<1> HIDE DEF S
<1>4. PICK x : S = {x}
  BY <1>1, <1>2, FS_Singleton
<1> QED
  BY <1>3, <1>4

LEMMA NamesInit == Init => NamesInv
BY DEF Init, NamesInv, OwnersOK, NamesLeadBack

LEMMA NamesServer ==
  ASSUME AliasInv, NamesInv, UpdateServerAliases
  PROVE  NamesInv'
<1> DEFINE new == {n \in DOMAIN Server : alias2path[n] = None}
           of(q) == {n \in new : Server[n] = q}
<1>1. alias2path' = [n \in Names |-> IF n \in new THEN Server[n] ELSE alias2path[n]]
  BY DEF UpdateServerAliases
<1>2. PICK last \in [Paths -> Names] :
        /\ \A q \in Paths : of(q) # {} => last[q] \in of(q)
        /\ path2alias' = [q \in Paths |-> IF of(q) # {} THEN last[q] ELSE path2alias[q]]
  BY DEF UpdateServerAliases
<1>3. OwnersOK'
  BY <1>1 DEF NamesInv, OwnersOK
<1>4. ASSUME NEW n \in Names, alias2path'[n] # None, Apart(alias2path'[n])
      PROVE  alias2path'[n] \in Paths /\ path2alias'[alias2path'[n]] = n
  <2> DEFINE q == alias2path'[n]
  <2>1. q \in Paths
    BY <1>1, <1>4, AliasesAssumption DEF AliasInv, AliasesAssumption
  <2>2. CASE n \in new
    <3>1. q = Server[n] /\ n \in DOMAIN Server /\ n \in of(q)
      BY <1>1, <2>2
    <3>2. q \notin ClientPaths
      BY <1>4, <3>1 DEF Apart
    <3>3. last[q] \in of(q) /\ path2alias'[q] = last[q]
      BY <1>2, <2>1, <3>1
    <3>4. last[q] \in DOMAIN Server /\ Server[last[q]] = q
      BY <3>3
    <3>5. last[q] = n
      BY <1>4, <3>1, <3>2, <3>4, ApartServer
    <3> QED
      BY <2>1, <3>3, <3>5
  <2>3. CASE n \notin new
    <3>1. q = alias2path[n] /\ path2alias[q] = n
      <4>1. q = alias2path[n]
        BY <1>1, <2>3
      <4>2. ToPath(n) = q
        BY <1>4, <4>1 DEF ToPath
      <4>3. ToAlias(q) = n
        BY <1>4, <4>1, <4>2 DEF NamesInv, NamesLeadBack
      <4>4. q # n
        BY <2>1, AliasesAssumption DEF AliasesAssumption
      <4> QED
        BY <4>1, <4>3, <4>4 DEF ToAlias
    <3>2. of(q) = {}
      <4>1. CASE q \in ClientPaths
        BY <1>4, <4>1 DEF Apart
      <4>2. CASE q \notin ClientPaths
        <5>1. n \in DOMAIN Server /\ Server[n] = q
          BY <1>4, <3>1, <4>2 DEF NamesInv, OwnersOK
        <5>2. ASSUME NEW m \in of(q) PROVE FALSE
          <6>1. m \in DOMAIN Server /\ Server[m] = q /\ m \in new
            OBVIOUS
          <6>2. m = n
            BY <1>4, <4>2, <5>1, <6>1, ApartServer
          <6> QED
            BY <2>3, <6>1, <6>2
        <5> QED
          BY <5>2
      <4> QED
        BY <4>1, <4>2
    <3> QED
      BY <1>2, <2>1, <3>1, <3>2
  <2> QED
    BY <2>1, <2>2, <2>3
<1>5. NamesLeadBack'
  <2> SUFFICES ASSUME NEW n \in Names, alias2path'[n] # None, Apart(alias2path'[n])
               PROVE  ToAlias(ToPath(n))' = n
    BY DEF NamesLeadBack, Apart
  <2>1. alias2path'[n] \in Paths /\ path2alias'[alias2path'[n]] = n
    BY <1>4
  <2>2. n # None
    BY AliasesAssumption DEF AliasesAssumption
  <2> QED
    BY <2>1, <2>2 DEF ToAlias, ToPath
<1> QED
  BY <1>3, <1>5 DEF NamesInv

\* A name of a path of one owner is the name the path has.
LEMMA NameOf ==
  ASSUME AliasInv, NamesInv, NEW n \in Names, alias2path[n] # None, Apart(alias2path[n])
  PROVE  alias2path[n] \in Paths /\ path2alias[alias2path[n]] = n
<1>1. alias2path[n] \in Paths
  BY DEF AliasInv
<1>2. alias2path[n] # n
  BY <1>1, AliasesAssumption DEF AliasesAssumption
<1> QED
  BY <1>1, <1>2 DEF NamesInv, NamesLeadBack, ToPath, ToAlias

\* What leads back when the names of every other path are its names.
LEMMA NamesBack ==
  ASSUME \A n \in Names : alias2path'[n] # None /\ Apart(alias2path'[n])
                            => path2alias'[alias2path'[n]] = n
  PROVE  NamesLeadBack'
<1> SUFFICES ASSUME NEW n \in Names, alias2path'[n] # None, Apart(alias2path'[n])
             PROVE  ToAlias(ToPath(n))' = n
  BY DEF NamesLeadBack, Apart
<1>1. n # None
  BY AliasesAssumption DEF AliasesAssumption
<1> QED
  BY <1>1 DEF ToAlias, ToPath

LEMMA NamesDelete ==
  ASSUME AliasInv, NamesInv, DeleteAlias
  PROVE  NamesInv'
<1> DEFINE d == Head(list).name
           q == alias2path[d]
<1>1. d \in Names
  <2>1. list # <<>> /\ Head(list) \in ClientAliases
    BY DEF DeleteAlias, AliasInv
  <2> QED
    BY <2>1 DEF ClientAliases
<1>2. /\ alias2path' = [alias2path EXCEPT ![d] = None]
      /\ path2alias' = IF q # None THEN [path2alias EXCEPT ![q] = None] ELSE path2alias
  BY DEF DeleteAlias
<1> HIDE DEF d
<1>3. \A n \in Names : alias2path'[n] = IF n = d THEN None ELSE alias2path[n]
  BY <1>1, <1>2 DEF AliasInv
<1>4. OwnersOK'
  BY <1>3 DEF NamesInv, OwnersOK
<1>5. ASSUME NEW n \in Names, alias2path'[n] # None, Apart(alias2path'[n])
      PROVE  path2alias'[alias2path'[n]] = n
  <2>1. n # d /\ alias2path'[n] = alias2path[n]
    BY <1>3, <1>5
  <2>2. alias2path[n] \in Paths /\ path2alias[alias2path[n]] = n
    BY <1>5, <2>1, NameOf
  <2>3. q # alias2path[n]
    <3> SUFFICES ASSUME q = alias2path[n] PROVE FALSE
      OBVIOUS
    <3>1. path2alias[q] = d
      BY <1>1, <1>5, <2>1, NameOf
    <3> QED
      BY <2>1, <2>2, <3>1
  <2> QED
    BY <1>2, <2>1, <2>2, <2>3 DEF AliasInv
<1> QED
  BY <1>4, <1>5, NamesBack DEF NamesInv

LEMMA NamesDefine ==
  ASSUME AliasInv, NamesInv, DefineAlias
  PROVE  NamesInv'
<1> DEFINE e == Head(list)
<1>1. e \in ClientAliases /\ e.path # None /\ ~ Taken(e)
  BY DEF DefineAlias, AliasInv
<1>2. e.name \in Names /\ e.path \in ClientPaths /\ e.path \in Paths
  BY <1>1, AliasesAssumption DEF ClientAliases, AliasesAssumption
<1>3. /\ alias2path' = [alias2path EXCEPT ![e.name] = e.path]
      /\ path2alias' = [path2alias EXCEPT ![e.path] = e.name]
  BY DEF DefineAlias
<1>4. alias2path[e.name] = None /\ path2alias[e.path] = None
  BY <1>1 DEF Taken
<1> HIDE DEF e
<1>5. /\ \A n \in Names : alias2path'[n] = IF n = e.name THEN e.path ELSE alias2path[n]
      /\ \A q \in Paths : path2alias'[q] = IF q = e.path THEN e.name ELSE path2alias[q]
  BY <1>2, <1>3 DEF AliasInv
<1>6. OwnersOK'
  BY <1>2, <1>5 DEF NamesInv, OwnersOK
<1>7. ASSUME NEW n \in Names, alias2path'[n] # None, Apart(alias2path'[n])
      PROVE  path2alias'[alias2path'[n]] = n
  <2>1. CASE n = e.name
    BY <1>2, <1>5, <2>1
  <2>2. CASE n # e.name
    <3>1. alias2path'[n] = alias2path[n]
      BY <1>5, <2>2
    <3>2. alias2path[n] \in Paths /\ path2alias[alias2path[n]] = n
      BY <1>7, <3>1, NameOf
    <3>3. n # None
      BY AliasesAssumption DEF AliasesAssumption
    <3> QED
      BY <1>4, <1>5, <3>1, <3>2, <3>3
  <2> QED
    BY <2>1, <2>2
<1> QED
  BY <1>6, <1>7, NamesBack DEF NamesInv

LEMMA NamesStep == AliasInv /\ NamesInv /\ [Next]_vars => NamesInv'
<1> SUFFICES ASSUME AliasInv, NamesInv, [Next]_vars PROVE NamesInv'
  OBVIOUS
<1>1. CASE UNCHANGED <<alias2path, path2alias>>
  BY <1>1 DEF NamesInv, OwnersOK, NamesLeadBack, ToPath, ToAlias, Apart
<1>2. ASSUME NEW l, AliasRequest(l) PROVE NamesInv'
  BY <1>1, <1>2 DEF AliasRequest, mapVars
<1>3. CASE ListDone \/ Announce \/ Announced \/ Receive \/ UNCHANGED vars
  BY <1>1, <1>3 DEF ListDone, Announce, Announced, Receive, vars, mapVars
<1>4. ASSUME NEW r \in Runs, NEW q \in Paths, RunPrefix(r, q) PROVE NamesInv'
  BY <1>1, <1>4 DEF RunPrefix, mapVars
<1>5. ASSUME NEW r \in Runs, RunSend(r) PROVE NamesInv'
  BY <1>1, <1>5 DEF RunSend, mapVars
<1> QED
  BY <1>2, <1>3, <1>4, <1>5, NamesServer, NamesDelete, NamesDefine DEF Next

-----------------------------------------------------------------------------
(* What the client knows.                                                   *)

\* The last response that announces n announces v, or none does and the client's
\* table has it.
LastTold(n, v) ==
    \/ \E i \in DOMAIN queue :
         /\ IsAlias(queue[i], n) /\ queue[i].path = v
         /\ \A j \in i + 1 .. Len(queue) : ~ IsAlias(queue[j], n)
    \/ table[n] = v /\ \A i \in DOMAIN queue : ~ IsAlias(queue[i], n)

\* A name that the client does not know, nor will from a response under way, is
\* still to be announced.
KnownOK ==
    \A n \in Names : LastTold(n, ToPath(n)) \/ \E i \in DOMAIN announce : announce[i] = n

KnowInv ==
    /\ hpc \in {"recv", "done"} => announce = <<>>
    /\ KnownOK

\* Responses that say nothing of n, or announce it.
LEMMA ToldAppend ==
  ASSUME TypeOK, NEW n, NEW v, NEW m, queue' = Append(queue, m), table' = table,
         IF IsAlias(m, n) THEN m.path = v ELSE LastTold(n, v)
  PROVE  LastTold(n, v)'
<1>1. /\ Len(queue') = Len(queue) + 1 /\ DOMAIN queue' = 1 .. Len(queue) + 1
      /\ queue'[Len(queue) + 1] = m
      /\ \A i \in 1 .. Len(queue) : queue'[i] = queue[i]
      /\ Len(queue) \in Nat /\ DOMAIN queue = 1 .. Len(queue)
  BY DEF TypeOK
<1>2. CASE IsAlias(m, n)
  <2>1. Len(queue) + 1 \in DOMAIN queue' /\ \A j \in (Len(queue) + 1) + 1 .. Len(queue') : FALSE
    BY <1>1
  <2> QED
    BY <1>1, <1>2, <2>1 DEF LastTold
<1>3. CASE ~ IsAlias(m, n) /\ \E i \in DOMAIN queue :
             /\ IsAlias(queue[i], n) /\ queue[i].path = v
             /\ \A j \in i + 1 .. Len(queue) : ~ IsAlias(queue[j], n)
  <2>1. PICK i \in DOMAIN queue :
          /\ IsAlias(queue[i], n) /\ queue[i].path = v
          /\ \A j \in i + 1 .. Len(queue) : ~ IsAlias(queue[j], n)
    BY <1>3
  <2>2. ASSUME NEW j \in i + 1 .. Len(queue') PROVE ~ IsAlias(queue'[j], n)
    <3>1. j = Len(queue) + 1 \/ (j \in i + 1 .. Len(queue) /\ j \in 1 .. Len(queue))
      BY <1>1, <2>1
    <3> QED
      BY <1>1, <1>3, <2>1, <3>1
  <2>3. i \in DOMAIN queue' /\ queue'[i] = queue[i]
    BY <1>1, <2>1
  <2> QED
    BY <2>1, <2>2, <2>3 DEF LastTold
<1>4. CASE ~ IsAlias(m, n) /\ table[n] = v /\ \A i \in DOMAIN queue : ~ IsAlias(queue[i], n)
  <2>1. \A i \in DOMAIN queue' : i = Len(queue) + 1 \/ i \in DOMAIN queue
    BY <1>1
  <2> QED
    BY <1>1, <1>4, <2>1 DEF LastTold
<1> QED
  BY <1>2, <1>3, <1>4 DEF LastTold

\* A response that the client receives.
LEMMA ToldReceive ==
  ASSUME TypeOK, Receive, NEW n \in Names, NEW v, LastTold(n, v)
  PROVE  LastTold(n, v)'
<1>1. /\ Len(queue') = Len(queue) - 1 /\ DOMAIN queue' = 1 .. Len(queue) - 1
      /\ \A i \in 1 .. Len(queue) - 1 : queue'[i] = queue[i + 1]
      /\ Head(queue) = queue[1]
      /\ Len(queue) \in Nat /\ Len(queue) > 0 /\ DOMAIN queue = 1 .. Len(queue)
  BY DEF Receive, TypeOK
<1>2. /\ IsAlias(queue[1], n) => table'[n] = queue[1].path
      /\ ~ IsAlias(queue[1], n) => table'[n] = table[n]
  BY <1>1 DEF Receive, TypeOK, IsAlias
<1>3. CASE \E i \in DOMAIN queue :
             /\ IsAlias(queue[i], n) /\ queue[i].path = v
             /\ \A j \in i + 1 .. Len(queue) : ~ IsAlias(queue[j], n)
  <2>1. PICK i \in DOMAIN queue :
          /\ IsAlias(queue[i], n) /\ queue[i].path = v
          /\ \A j \in i + 1 .. Len(queue) : ~ IsAlias(queue[j], n)
    BY <1>3
  <2>2. \A j \in DOMAIN queue' : j > i - 1 => ~ IsAlias(queue'[j], n)
    <3> SUFFICES ASSUME NEW j \in DOMAIN queue', j > i - 1 PROVE ~ IsAlias(queue'[j], n)
      OBVIOUS
    <3>1. j + 1 \in i + 1 .. Len(queue) /\ queue'[j] = queue[j + 1]
      BY <1>1, <2>1
    <3> QED
      BY <2>1, <3>1
  <2>3. CASE i = 1
    <3>1. \A j \in DOMAIN queue' : ~ IsAlias(queue'[j], n)
      BY <1>1, <2>2, <2>3
    <3> QED
      BY <1>2, <2>1, <2>3, <3>1 DEF LastTold
  <2>4. CASE i # 1
    <3>1. i - 1 \in DOMAIN queue' /\ queue'[i - 1] = queue[i]
      BY <1>1, <2>1, <2>4
    <3>2. \A j \in (i - 1) + 1 .. Len(queue') : j \in DOMAIN queue' /\ j > i - 1
      BY <1>1, <2>1, <2>4
    <3> QED
      BY <2>1, <2>2, <3>1, <3>2 DEF LastTold
  <2> QED
    BY <2>3, <2>4
<1>4. CASE table[n] = v /\ \A i \in DOMAIN queue : ~ IsAlias(queue[i], n)
  <2>1. 1 \in DOMAIN queue /\ \A j \in DOMAIN queue' : j + 1 \in DOMAIN queue /\ queue'[j] = queue[j + 1]
    BY <1>1
  <2> QED
    BY <1>2, <1>4, <2>1 DEF LastTold
<1> QED
  BY <1>3, <1>4 DEF LastTold

LEMMA KnowInit == Init => KnowInv
<1> SUFFICES ASSUME Init PROVE KnowInv
  OBVIOUS
<1>1. DOMAIN queue = {}
  BY DEF Init
<1>2. \A n \in Names : table[n] = n /\ ToPath(n) = n
  BY DEF Init, ToPath
<1> QED
  BY <1>1, <1>2 DEF Init, KnowInv, KnownOK, LastTold

\* A step that changes no name, sends nothing and announces nothing.
LEMMA KnowFrame ==
  ASSUME KnowInv, UNCHANGED <<alias2path, announce, queue, table>>,
         hpc' \in {"recv", "done"} => announce = <<>>
  PROVE  KnowInv'
BY DEF KnowInv, KnownOK, LastTold, ToPath

\* A name that changes is announced.
LEMMA KnowChange ==
  ASSUME KnowInv, TypeOK, NEW d, announce' = Append(announce, d),
         \A n \in Names \ {d} : alias2path'[n] = alias2path[n],
         UNCHANGED <<queue, table>>, hpc' = "update"
  PROVE  KnowInv'
<1> SUFFICES ASSUME NEW n \in Names
             PROVE  LastTold(n, ToPath(n))' \/ \E i \in DOMAIN announce' : announce'[i] = n
  BY DEF KnowInv, KnownOK
<1>1. /\ DOMAIN announce' = 1 .. Len(announce) + 1 /\ announce'[Len(announce) + 1] = d
      /\ \A i \in DOMAIN announce : i \in DOMAIN announce' /\ announce'[i] = announce[i]
      /\ Len(announce) + 1 \in DOMAIN announce'
  BY DEF TypeOK
<1>2. CASE n = d
  BY <1>1, <1>2
<1>3. CASE n # d
  <2>1. ToPath(n)' = ToPath(n)
    BY <1>3 DEF ToPath
  <2>2. LastTold(n, ToPath(n)) => LastTold(n, ToPath(n))'
    BY <2>1 DEF LastTold
  <2> QED
    BY <1>1, <2>2 DEF KnowInv, KnownOK
<1> QED
  BY <1>2, <1>3

LEMMA KnowServer ==
  ASSUME KnowInv, UpdateServerAliases
  PROVE  KnowInv'
<1> DEFINE new == {n \in DOMAIN Server : alias2path[n] = None}
<1>1. /\ alias2path' = [n \in Names |-> IF n \in new THEN Server[n] ELSE alias2path[n]]
      /\ UNCHANGED <<queue, table>> /\ announce = <<>> /\ hpc' = "announce"
  BY DEF UpdateServerAliases, KnowInv
<1>2. PICK s \in [1 .. Cardinality(new) -> new] :
        {s[i] : i \in DOMAIN s} = new /\ announce' = s
  BY DEF UpdateServerAliases
<1> HIDE DEF new
<1> SUFFICES ASSUME NEW n \in Names
             PROVE  LastTold(n, ToPath(n))' \/ \E i \in DOMAIN announce' : announce'[i] = n
  BY <1>1 DEF KnowInv, KnownOK
<1>3. CASE n \in new
  BY <1>2, <1>3
<1>4. CASE n \notin new
  <2>1. ToPath(n)' = ToPath(n)
    BY <1>1, <1>4 DEF ToPath
  <2>2. DOMAIN announce = {}
    BY <1>1
  <2>3. LastTold(n, ToPath(n))
    BY <2>2 DEF KnowInv, KnownOK
  <2> QED
    BY <1>1, <2>1, <2>3 DEF LastTold
<1> QED
  BY <1>3, <1>4

\* A name is announced with the path it has by then.
LEMMA KnowAnnounce ==
  ASSUME KnowInv, TypeOK, Announce
  PROVE  KnowInv'
<1> DEFINE d == Head(announce)
           m == [kind |-> "alias", name |-> d, path |-> ToPath(d), stale |-> FALSE]
<1>1. /\ queue' = Append(queue, m) /\ table' = table /\ announce' = Tail(announce)
      /\ hpc' = hpc /\ hpc \in {"announce", "fail"}
      /\ \A n : ToPath(n)' = ToPath(n)
  BY DEF Announce, mapVars, ToPath
<1>2. /\ d = announce[1] /\ DOMAIN announce = 1 .. Len(announce)
      /\ \A i \in DOMAIN announce : i # 1 =>
           i - 1 \in DOMAIN Tail(announce) /\ Tail(announce)[i - 1] = announce[i]
  BY DEF Announce, TypeOK
<1> SUFFICES ASSUME NEW n \in Names
             PROVE  LastTold(n, ToPath(n))' \/ \E i \in DOMAIN announce' : announce'[i] = n
  BY <1>1 DEF KnowInv, KnownOK
<1>3. IsAlias(m, n) => n = d /\ m.path = ToPath(n)
  BY DEF IsAlias
<1> HIDE DEF m, d
<1>4. CASE n = d \/ LastTold(n, ToPath(n))
  <2>1. n = d => IsAlias(m, n)
    BY DEF IsAlias, m
  <2>2. IF IsAlias(m, n) THEN m.path = ToPath(n) ELSE LastTold(n, ToPath(n))
    BY <1>3, <1>4, <2>1
  <2> DEFINE v == ToPath(n)
  <2>3. v' = v
    BY <1>1
  <2>4. IF IsAlias(m, n) THEN m.path = v ELSE LastTold(n, v)
    BY <2>2
  <2> HIDE DEF v
  <2>5. ASSUME NEW w, w = v PROVE LastTold(n, w)'
    <3>1. IF IsAlias(m, n) THEN m.path = w ELSE LastTold(n, w)
      BY <2>4, <2>5
    <3> QED
      BY <1>1, <3>1, ToldAppend
  <2> QED
    BY <2>3, <2>5 DEF LastTold, v
<1>5. CASE n # d /\ \E i \in DOMAIN announce : announce[i] = n
  BY <1>1, <1>2, <1>5
<1> QED
  BY <1>4, <1>5 DEF KnowInv, KnownOK

LEMMA KnowStep == TypeOK /\ KnowInv /\ [Next]_vars => KnowInv'
<1> SUFFICES ASSUME TypeOK, KnowInv, [Next]_vars PROVE KnowInv'
  OBVIOUS
<1>1. CASE DeleteAlias
  <2>1. /\ alias2path' = [alias2path EXCEPT ![Head(list).name] = None]
        /\ announce' = Append(announce, Head(list).name)
        /\ UNCHANGED <<queue, table>> /\ hpc' = "update"
    BY <1>1 DEF DeleteAlias
  <2>2. \A n \in Names \ {Head(list).name} : alias2path'[n] = alias2path[n]
    BY <2>1 DEF TypeOK
  <2> QED
    BY <2>1, <2>2, KnowChange
<1>2. CASE DefineAlias
  <2>1. /\ alias2path' = [alias2path EXCEPT ![Head(list).name] = Head(list).path]
        /\ announce' = Append(announce, Head(list).name)
        /\ UNCHANGED <<queue, table>> /\ hpc' = "update"
    BY <1>2 DEF DefineAlias
  <2>2. \A n \in Names \ {Head(list).name} : alias2path'[n] = alias2path[n]
    BY <2>1 DEF TypeOK
  <2> QED
    BY <2>1, <2>2, KnowChange
<1>3. ASSUME NEW l, AliasRequest(l) PROVE KnowInv'
  BY <1>3, KnowFrame DEF AliasRequest, mapVars
<1>4. CASE ListDone \/ Announced \/ UNCHANGED vars
  BY <1>4, KnowFrame DEF ListDone, Announced, vars, mapVars, KnowInv
<1>5. ASSUME NEW r \in Runs, RunSend(r) PROVE KnowInv'
  <2> DEFINE m == [kind |-> "data", name |-> hand[r].name, path |-> hand[r].path,
                   stale |-> path2alias[hand[r].path] # hand[r].name]
  <2>1. /\ queue' = Append(queue, m) /\ UNCHANGED <<alias2path, announce, table, hpc>>
        /\ \A n : ~ IsAlias(m, n)
    BY <1>5 DEF RunSend, mapVars, IsAlias
  <2> HIDE DEF m
  <2>2. ASSUME NEW n \in Names, NEW v, LastTold(n, v) PROVE LastTold(n, v)'
    BY <2>1, <2>2, ToldAppend
  <2>3. \A n : ToPath(n)' = ToPath(n)
    BY <2>1 DEF ToPath
  <2>4. ASSUME NEW n \in Names, LastTold(n, ToPath(n)) PROVE LastTold(n, ToPath(n))'
    <3>1. ASSUME NEW v, v = ToPath(n) PROVE LastTold(n, v)'
      BY <2>2, <2>4, <3>1
    <3> QED
      BY <2>3, <3>1 DEF LastTold
  <2> QED
    BY <2>1, <2>4 DEF KnowInv, KnownOK
<1>6. CASE Receive
  <2>1. UNCHANGED <<alias2path, announce, hpc>> /\ \A n : ToPath(n)' = ToPath(n)
    BY <1>6 DEF Receive, mapVars, ToPath
  <2>2. ASSUME NEW n \in Names, LastTold(n, ToPath(n)) PROVE LastTold(n, ToPath(n))'
    <3>1. ASSUME NEW v, v = ToPath(n) PROVE LastTold(n, v)'
      BY <1>6, <2>2, <3>1, ToldReceive
    <3> QED
      BY <2>1, <3>1 DEF LastTold
  <2> QED
    BY <2>1, <2>2 DEF KnowInv, KnownOK
<1>7. ASSUME NEW r \in Runs, NEW q \in Paths, RunPrefix(r, q) PROVE KnowInv'
  BY <1>7, KnowFrame DEF RunPrefix, mapVars, KnowInv
<1> QED
  BY <1>1, <1>2, <1>3, <1>4, <1>5, <1>6, <1>7, KnowServer, KnowAnnounce DEF Next

LEMMA KnowSettles == KnowInv => ClientKnows
<1> SUFFICES ASSUME KnowInv, hpc \in {"recv", "done"}, queue = <<>>, NEW n \in Names
             PROVE  table[n] = ToPath(n)
  BY DEF ClientKnows
<1>1. DOMAIN announce = {} /\ DOMAIN queue = {}
  BY DEF KnowInv
<1> QED
  BY <1>1 DEF KnowInv, KnownOK, LastTold

-----------------------------------------------------------------------------
(* Prefixes.                                                                *)

\* The announcements before the i-th response stay before it, and those behind
\* it behind it, when a response is sent.
LEMMA HeardAppend ==
  ASSUME TypeOK, NEW m, queue' = Append(queue, m), table' = table,
         NEW i \in DOMAIN queue
  PROVE  /\ i \in DOMAIN queue' /\ queue'[i] = queue[i]
         /\ \A n, v : Heard(i, n, v) => Heard(i, n, v)'
         /\ \A n : (\E j \in i + 1 .. Len(queue) : IsAlias(queue[j], n))
                  => \E j \in i + 1 .. Len(queue') : IsAlias(queue'[j], n)
         /\ \A n : IsAlias(m, n) => \E j \in i + 1 .. Len(queue') : IsAlias(queue'[j], n)
<1>1. /\ Len(queue') = Len(queue) + 1 /\ DOMAIN queue' = 1 .. Len(queue) + 1
      /\ queue'[Len(queue) + 1] = m
      /\ \A k \in 1 .. Len(queue) : queue'[k] = queue[k]
      /\ Len(queue) \in Nat /\ DOMAIN queue = 1 .. Len(queue)
      /\ i \in 1 .. Len(queue)
  BY DEF TypeOK
<1>2. i \in DOMAIN queue' /\ queue'[i] = queue[i]
  BY <1>1
<1>3. \A k \in 1 .. i - 1 : queue'[k] = queue[k]
  BY <1>1
<1>4. \A j \in 1 .. i - 1 : \A k \in j + 1 .. i - 1 : k \in 1 .. i - 1
  BY <1>1
<1>5. ASSUME NEW n, NEW v, Heard(i, n, v)
      PROVE  Heard(i, n, v)'
  <2>1. CASE \E j \in 1 .. i - 1 :
               /\ IsAlias(queue[j], n) /\ queue[j].path = v
               /\ \A k \in j + 1 .. i - 1 : ~ IsAlias(queue[k], n)
    <3>1. PICK j \in 1 .. i - 1 :
            /\ IsAlias(queue[j], n) /\ queue[j].path = v
            /\ \A k \in j + 1 .. i - 1 : ~ IsAlias(queue[k], n)
      BY <2>1
    <3>2. \A k \in j + 1 .. i - 1 : ~ IsAlias(queue'[k], n)
      BY <1>1, <1>3, <3>1
    <3> QED
      BY <1>3, <3>1, <3>2 DEF Heard
  <2>2. CASE table[n] = v /\ \A k \in 1 .. i - 1 : ~ IsAlias(queue[k], n)
    BY <1>3, <2>2 DEF Heard
  <2> QED
    BY <1>5, <2>1, <2>2 DEF Heard
<1>6. \A j \in i + 1 .. Len(queue) : j \in i + 1 .. Len(queue') /\ queue'[j] = queue[j]
  BY <1>1
<1>7. Len(queue) + 1 \in i + 1 .. Len(queue')
  BY <1>1
<1> QED
  BY <1>1, <1>2, <1>5, <1>6, <1>7

\* The client takes the first response, and the others move up.
LEMMA HeardReceive ==
  ASSUME TypeOK, Receive, NEW i \in DOMAIN queue', NEW n \in Names, NEW v,
         Heard(i + 1, n, v)
  PROVE  Heard(i, n, v)'
<1>1. /\ DOMAIN queue' = 1 .. Len(queue) - 1
      /\ \A k \in 1 .. Len(queue) - 1 : queue'[k] = queue[k + 1]
      /\ Len(queue) \in Nat /\ DOMAIN queue = 1 .. Len(queue)
      /\ i \in Nat /\ 1 <= i /\ i <= Len(queue) - 1
      /\ Head(queue) = queue[1]
  BY DEF Receive, TypeOK
<1>2. /\ IsAlias(queue[1], n) => table'[n] = queue[1].path
      /\ ~ IsAlias(queue[1], n) => table'[n] = table[n]
  BY <1>1 DEF Receive, TypeOK, IsAlias
<1>3. \A k \in 1 .. i - 1 : queue'[k] = queue[k + 1]
  BY <1>1
<1>4. CASE \E j \in 1 .. i :
             /\ IsAlias(queue[j], n) /\ queue[j].path = v
             /\ \A k \in j + 1 .. i : ~ IsAlias(queue[k], n)
  <2>1. PICK j \in 1 .. i :
          /\ IsAlias(queue[j], n) /\ queue[j].path = v
          /\ \A k \in j + 1 .. i : ~ IsAlias(queue[k], n)
    BY <1>4
  <2>2. ASSUME NEW k \in 1 .. i - 1, k > j - 1
        PROVE  ~ IsAlias(queue'[k], n)
    <3>1. k + 1 \in j + 1 .. i
      BY <1>1, <2>1, <2>2
    <3> QED
      BY <1>3, <2>1, <3>1
  <2>3. CASE j = 1
    <3>1. \A k \in 1 .. i - 1 : ~ IsAlias(queue'[k], n)
      BY <1>1, <2>2, <2>3
    <3> QED
      BY <1>2, <2>1, <2>3, <3>1 DEF Heard
  <2>4. CASE j # 1
    <3>1. j - 1 \in 1 .. i - 1 /\ queue'[j - 1] = queue[j]
      BY <1>1, <1>3, <2>1, <2>4
    <3>2. \A k \in (j - 1) + 1 .. i - 1 : k \in 1 .. i - 1 /\ k > j - 1
      BY <1>1, <2>1, <2>4
    <3> QED
      BY <2>1, <2>2, <3>1, <3>2 DEF Heard
  <2> QED
    BY <2>3, <2>4
<1>5. CASE table[n] = v /\ \A k \in 1 .. i : ~ IsAlias(queue[k], n)
  <2>1. 1 \in 1 .. i /\ \A k \in 1 .. i - 1 : k + 1 \in 1 .. i
    BY <1>1
  <2> QED
    BY <1>2, <1>3, <1>5, <2>1 DEF Heard
<1>6. (i + 1) - 1 = i
  BY <1>1
<1> QED
  BY <1>4, <1>5, <1>6 DEF Heard

\* What PrefixesKnown says of one response.
Explained(i) ==
    queue[i].kind = "data" /\ queue[i].name # None /\ ~ queue[i].stale =>
        \/ Heard(i, queue[i].name, queue[i].path)
        \/ \E j \in i + 1 .. Len(queue) : IsAlias(queue[j], queue[i].name)
        \/ \E j \in DOMAIN announce : announce[j] = queue[i].name

\* The same with names for the parts of the response, now and after a step.
Explains(i, n, v) ==
    \/ Heard(i, n, v)
    \/ \E j \in i + 1 .. Len(queue) : IsAlias(queue[j], n)
    \/ \E j \in DOMAIN announce : announce[j] = n
Claimed(m, n, v) ==
    m.kind = "data" /\ n # None /\ ~ m.stale /\ n = m.name /\ v = m.path

LEMMA ExplainNow ==
  ASSUME NEW i, NEW n, NEW v, Explained(i), Claimed(queue[i], n, v)
  PROVE  Explains(i, n, v)
BY DEF Explained, Explains, Claimed, Heard

LEMMA ExplainNext ==
  ASSUME NEW i, \A n, v : Claimed(queue'[i], n, v) => Explains(i, n, v)'
  PROVE  Explained(i)'
<1>1. PICK n, v : n = queue'[i].name /\ v = queue'[i].path
  OBVIOUS
<1>2. Claimed(queue'[i], n, v) => Explains(i, n, v)'
  OBVIOUS
<1> QED
  BY <1>1, <1>2 DEF Explained, Explains, Claimed, Heard

LEMMA PrefixesExplained == PrefixesKnown <=> \A i \in DOMAIN queue : Explained(i)
BY DEF PrefixesKnown, Explained

\* Nothing is sent, and what is to be announced stays so.
LEMMA ExplainedKept ==
  ASSUME PrefixesKnown, UNCHANGED <<queue, table>>,
         \A i \in DOMAIN announce : \E j \in DOMAIN announce' : announce'[j] = announce[i]
  PROVE  PrefixesKnown'
BY DEF PrefixesKnown, Heard

\* A prefix that is not stale is a name that the client knows or will be told of.
LEMMA PrefixSent ==
  ASSUME TypeOK, AliasInv, KnowInv, PrefixesKnown, NEW r \in Runs, RunSend(r)
  PROVE  PrefixesKnown'
<1> DEFINE h == hand[r]
           m == [kind |-> "data", name |-> h.name, path |-> h.path,
                 stale |-> path2alias[h.path] # h.name]
<1>1. queue' = Append(queue, m) /\ UNCHANGED <<announce, table>>
  BY DEF RunSend
<1>2. /\ Len(queue') = Len(queue) + 1 /\ DOMAIN queue' = 1 .. Len(queue) + 1
      /\ queue'[Len(queue) + 1] = m /\ Len(queue) \in Nat
      /\ \A k \in 1 .. Len(queue) : queue'[k] = queue[k]
      /\ DOMAIN queue = 1 .. Len(queue)
  BY <1>1 DEF TypeOK
<1>3. h \in Prefixes
  BY DEF RunSend, TypeOK
<1> SUFFICES ASSUME NEW i \in DOMAIN queue'
             PROVE  Explained(i)'
  BY DEF PrefixesKnown, Explained
<1> HIDE DEF h, m
<1>4. CASE i \in DOMAIN queue
  <2>1. ASSUME NEW n, NEW v, Claimed(queue'[i], n, v)
        PROVE  Explains(i, n, v)'
    <3>1. Claimed(queue[i], n, v) /\ Explained(i)
      BY <1>1, <1>4, <2>1, HeardAppend, PrefixesExplained
    <3>2. Explains(i, n, v)
      BY <3>1, ExplainNow
    <3> QED
      BY <1>1, <1>4, <3>2, HeardAppend DEF Explains
  <2> QED
    BY <2>1, ExplainNext
<1>5. CASE i = Len(queue) + 1
  <2>1. ASSUME NEW n, NEW v, Claimed(m, n, v)
        PROVE  Explains(i, n, v)'
    <3>1. n = h.name /\ v = h.path /\ n # None /\ path2alias[v] = n
      BY <2>1 DEF Claimed, m
    <3>2. n \in Names /\ v \in Paths
      BY <1>3, <3>1 DEF Prefixes
    <3>3. ToPath(n) = v
      BY <3>1, <3>2, AliasesAssumption DEF AliasInv, ToPath, AliasesAssumption
    <3>4. LastTold(n, ToPath(n)) \/ \E j \in DOMAIN announce : announce[j] = n
      BY <3>2 DEF KnowInv, KnownOK
    <3>5. LastTold(n, v) \/ \E j \in DOMAIN announce : announce[j] = n
      BY <3>3, <3>4 DEF LastTold
    <3>6. i - 1 = Len(queue)
      BY <1>2, <1>5
    <3>7. \A j \in DOMAIN queue : \A k \in j + 1 .. Len(queue) : k \in DOMAIN queue
      BY <1>2
    <3>8. CASE LastTold(n, v)
      <4>1. CASE \E j \in DOMAIN queue :
                   /\ IsAlias(queue[j], n) /\ queue[j].path = v
                   /\ \A k \in j + 1 .. Len(queue) : ~ IsAlias(queue[k], n)
        <5>1. PICK j \in DOMAIN queue :
                /\ IsAlias(queue[j], n) /\ queue[j].path = v
                /\ \A k \in j + 1 .. Len(queue) : ~ IsAlias(queue[k], n)
          BY <4>1
        <5>2. \A k \in j + 1 .. i - 1 : ~ IsAlias(queue'[k], n)
          BY <1>2, <3>6, <3>7, <5>1
        <5>3. j \in 1 .. i - 1 /\ queue'[j] = queue[j]
          BY <1>2, <3>6
        <5> QED
          BY <5>1, <5>2, <5>3 DEF Explains, Heard
      <4>2. CASE table[n] = v /\ \A k \in DOMAIN queue : ~ IsAlias(queue[k], n)
        <5>1. \A k \in 1 .. i - 1 : ~ IsAlias(queue'[k], n)
          BY <1>2, <3>6, <4>2
        <5> QED
          BY <1>1, <4>2, <5>1 DEF Explains, Heard
      <4> QED
        BY <3>8, <4>1, <4>2 DEF LastTold
    <3> QED
      BY <1>1, <3>5, <3>8 DEF Explains
  <2> QED
    BY <1>2, <1>5, <2>1, ExplainNext
<1> QED
  BY <1>2, <1>4, <1>5

\* An announcement goes from the handler into respchan, behind the prefixes.
LEMMA PrefixAnnounce ==
  ASSUME TypeOK, PrefixesKnown, Announce
  PROVE  PrefixesKnown'
<1> DEFINE d == Head(announce)
           m == [kind |-> "alias", name |-> d, path |-> ToPath(d), stale |-> FALSE]
<1>1. /\ queue' = Append(queue, m) /\ announce' = Tail(announce) /\ table' = table
  BY DEF Announce
<1>2. /\ DOMAIN queue' = DOMAIN queue \cup {Len(queue) + 1}
      /\ queue'[Len(queue) + 1] = m
  BY <1>1 DEF TypeOK
<1>3. /\ d = announce[1]
      /\ \A k \in DOMAIN announce : k # 1 =>
           k - 1 \in DOMAIN announce' /\ announce'[k - 1] = announce[k]
  BY <1>1 DEF Announce, TypeOK
<1>4. IsAlias(m, d) /\ m.kind # "data"
  BY DEF IsAlias
<1> HIDE DEF m, d
<1> SUFFICES ASSUME NEW i \in DOMAIN queue'
             PROVE  Explained(i)'
  BY DEF PrefixesKnown, Explained
<1>5. CASE i \in DOMAIN queue
  <2>1. ASSUME NEW n, NEW v, Claimed(queue'[i], n, v)
        PROVE  Explains(i, n, v)'
    <3>1. Claimed(queue[i], n, v) /\ Explained(i)
      BY <1>1, <1>5, <2>1, HeardAppend, PrefixesExplained
    <3>2. Explains(i, n, v)
      BY <3>1, ExplainNow
    <3>3. CASE n = d
      <4>1. IsAlias(m, n)
        BY <1>4, <3>3
      <4>2. \E j \in i + 1 .. Len(queue') : IsAlias(queue'[j], n)
        BY <1>1, <1>5, <4>1, HeardAppend
      <4> QED
        BY <4>2 DEF Explains
    <3>4. CASE n # d /\ \E k \in DOMAIN announce : announce[k] = n
      <4>1. \E k \in DOMAIN announce' : announce'[k] = n
        BY <1>3, <3>4
      <4> QED
        BY <4>1 DEF Explains
    <3>5. CASE \/ Heard(i, n, v)
               \/ \E j \in i + 1 .. Len(queue) : IsAlias(queue[j], n)
      BY <1>1, <1>5, <3>5, HeardAppend DEF Explains
    <3> QED
      BY <3>2, <3>3, <3>4, <3>5 DEF Explains
  <2> QED
    BY <2>1, ExplainNext
<1>6. CASE i = Len(queue) + 1
  BY <1>2, <1>4, <1>6 DEF Explained
<1> QED
  BY <1>2, <1>5, <1>6

LEMMA PrefixReceive ==
  ASSUME TypeOK, PrefixesKnown, Receive
  PROVE  PrefixesKnown'
<1>1. /\ DOMAIN queue' = 1 .. Len(queue) - 1 /\ Len(queue') = Len(queue) - 1
      /\ \A k \in 1 .. Len(queue) - 1 : queue'[k] = queue[k + 1]
      /\ Len(queue) \in Nat /\ DOMAIN queue = 1 .. Len(queue)
  BY DEF Receive, TypeOK
<1>2. announce' = announce
  BY DEF Receive
<1> SUFFICES ASSUME NEW i \in DOMAIN queue'
             PROVE  Explained(i)'
  BY DEF PrefixesKnown, Explained
<1>3. i + 1 \in DOMAIN queue /\ queue'[i] = queue[i + 1] /\ i \in Nat
  BY <1>1
<1>4. Explained(i + 1)
  BY <1>3, PrefixesExplained
<1>5. ASSUME NEW n, NEW v, Claimed(queue'[i], n, v)
      PROVE  Explains(i, n, v)'
  <2>1. Claimed(queue[i + 1], n, v)
    BY <1>3, <1>5
  <2>2. Explains(i + 1, n, v)
    BY <1>4, <2>1, ExplainNow
  <2>3. n \in Names
    <3>1. queue[i + 1] \in Responses
      BY <1>3 DEF TypeOK
    <3> QED
      BY <2>1, <3>1 DEF Responses, Claimed
  <2>4. CASE Heard(i + 1, n, v)
    BY <2>3, <2>4, HeardReceive DEF Explains
  <2>5. ASSUME NEW j \in (i + 1) + 1 .. Len(queue), IsAlias(queue[j], n)
        PROVE  \E k \in i + 1 .. Len(queue') : IsAlias(queue'[k], n)
    <3>1. j - 1 \in i + 1 .. Len(queue') /\ queue'[j - 1] = queue[j]
      BY <1>1, <1>3
    <3> QED
      BY <2>5, <3>1
  <2> QED
    BY <1>2, <2>2, <2>4, <2>5 DEF Explains
<1> QED
  BY <1>5, ExplainNext

LEMMA PrefixStep ==
  TypeOK /\ AliasInv /\ KnowInv /\ PrefixesKnown /\ [Next]_vars => PrefixesKnown'
<1> SUFFICES ASSUME TypeOK, AliasInv, KnowInv, PrefixesKnown, [Next]_vars
             PROVE  PrefixesKnown'
  OBVIOUS
<1>1. CASE UpdateServerAliases
  <2>1. announce = <<>> /\ UNCHANGED <<queue, table>>
    BY <1>1 DEF UpdateServerAliases, KnowInv
  <2>2. \A i \in DOMAIN announce : FALSE
    BY <2>1
  <2> QED
    BY <2>1, <2>2, ExplainedKept
<1>2. CASE DeleteAlias \/ DefineAlias
  <2>1. announce' = Append(announce, Head(list).name) /\ UNCHANGED <<queue, table>>
    BY <1>2 DEF DeleteAlias, DefineAlias
  <2>2. \A i \in DOMAIN announce : i \in DOMAIN announce' /\ announce'[i] = announce[i]
    BY <2>1 DEF TypeOK
  <2> QED
    BY <2>1, <2>2, ExplainedKept
<1>3. CASE UNCHANGED <<announce, queue, table>>
  BY <1>3, ExplainedKept
<1>4. ASSUME NEW l, AliasRequest(l) PROVE PrefixesKnown'
  BY <1>3, <1>4 DEF AliasRequest
<1>5. CASE ListDone \/ Announced \/ UNCHANGED vars
  BY <1>3, <1>5 DEF ListDone, Announced, vars
<1>6. ASSUME NEW r \in Runs, NEW q \in Paths, RunPrefix(r, q) PROVE PrefixesKnown'
  BY <1>3, <1>6 DEF RunPrefix
<1> QED
  BY <1>1, <1>2, <1>4, <1>5, <1>6, PrefixSent, PrefixAnnounce, PrefixReceive DEF Next

-----------------------------------------------------------------------------
LEMMA TypesHold == Spec => [](AliasInv /\ TypeOK)
<1>1. AliasInv /\ TypeOK /\ [Next]_vars => (AliasInv /\ TypeOK)'
  BY AliasStep, TypeStep
<1> QED
  BY AliasInit, TypeInit, <1>1, PTL DEF Spec

\* The variables keep their types.
THEOREM TypeCorrect == Spec => []TypeOK
<1> QED
  BY TypesHold, PTL

\* A name whose path is one alias's business alone is the name of that path,
\* whatever is defined and deleted.  (updateServerAliases, updateClientAlias)
THEOREM PathLeadsBack == Spec => []NamesLeadBack
<1>1. NamesInv => NamesLeadBack
  BY DEF NamesInv
<1> QED
  BY AliasInit, AliasStep, NamesInit, NamesStep, <1>1, PTL DEF Spec

\* When nothing is under way the client knows what every name stands for:
\* whatever changed was announced, before an error, too.  (clientAliasesUpdate,
\* serverAliasesUpdate)
THEOREM NamesGetKnown == Spec => []ClientKnows
<1> QED
  BY TypesHold, KnowInit, KnowStep, KnowSettles, PTL DEF Spec

\* A prefix that a run() puts in place of a path is known to the client when it
\* comes, or an announcement of it is on its way, unless the alias was changed
\* between ToAlias() and Send().  (telemetryUpdate, clientAliasesUpdate)
THEOREM PrefixesGetKnown == Spec => []PrefixesKnown
<1>1. Init => PrefixesKnown
  <2> SUFFICES ASSUME Init
               PROVE  PrefixesKnown
    OBVIOUS
  <2>1. DOMAIN queue = {}
    BY DEF Init
  <2> QED
    BY <2>1 DEF PrefixesKnown
<1> QED
  BY <1>1, TypesHold, KnowInit, KnowStep, PrefixStep, PTL DEF Spec
=============================================================================

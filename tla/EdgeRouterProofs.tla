--------------------------- MODULE EdgeRouterProofs ---------------------------
(***************************************************************************)
(* Proofs about TalosEdgeRouter, for every set of Services, labels, names, *)
(* ports and addresses and every number of bytes: its state is well typed, *)
(* every route is claimed by the Service it leads to, a Service's changes  *)
(* never take away a peer's route, and a relayed stream ends only after    *)
(* all of it.                                                              *)
(*                                                                         *)
(* The routes need what the router remembers besides its tables: `owned'   *)
(* of a Service is what the Service asked for when it was last delivered.  *)
(* The relay needs its accounts: what was taken off a source is what the   *)
(* sink got and what ReadSNI still holds, and never more than was sent.    *)
(***************************************************************************)
EXTENDS TalosEdgeRouter, SequenceTheorems, TLAPS

\* A Service owns exactly what it asked for when it was last delivered.
OwnedIsAsked ==
  \A s \in Svc : owned[s] = IF s \in DOMAIN seen THEN Asks(seen[s]) ELSE <<>>

RouterInv == RouterTypeOK /\ OwnedIsAsked /\ RoutesAreClaimed

\* The accounts of either direction.
Accounts ==
  /\ \A d \in Dir : taken[d] <= sent[d]
  /\ got["up"] + peeked = taken["up"]
  /\ got["down"] = taken["down"]
  /\ phase \in {"none", "hello"} => taken["up"] = 0

\* A direction whose goroutine is done has moved everything, unless an end
\* reset its connection; nothing is half-closed or closed before.
DoneIsAll ==
  /\ \A d \in Dir :
       /\ fin[d] => done[d]
       /\ done[d] /\ reset = {} => eof[d] /\ got[d] = sent[d]
  /\ phase = "closed" => done["up"] /\ done["down"]

RelayInv == RelayTypeOK /\ Accounts /\ DoneIsAll

IInv ==
  /\ RouterInv /\ RelayInv /\ SyncerTypeOK
  /\ syncing \in BOOLEAN /\ target \in (Label \X Host) \cup {<<>>} /\ ops \in 0..MaxOps
  /\ phase # "none" => target \in Label \X Host

-----------------------------------------------------------------------------
(***************************************************************************)
(* The routing table.                                                      *)
(***************************************************************************)
\* <<>> is the function with the empty domain, so a partial function.
LEMMA EmptyFunction ==
  ASSUME NEW S, NEW T
  PROVE  /\ DOMAIN <<>> = {} /\ <<>> \in Partial(S, T)
<1>1. <<>> \in [1..Len(<<>>) -> T] /\ DOMAIN <<>> = 1..Len(<<>>) /\ Len(<<>>) = 0
  BY EmptySeq, LenProperties
<1>2. 1..0 = {}
  OBVIOUS
<1>3. <<>> \in [{} -> T] /\ DOMAIN <<>> = {}
  BY <1>1, <1>2
<1> QED
  BY <1>3 DEF Partial

\* Membership in Partial, read and written.
LEMMA PartialElim ==
  ASSUME NEW S, NEW T, NEW f \in Partial(S, T)
  PROVE  /\ DOMAIN f \subseteq S /\ f = [x \in DOMAIN f |-> f[x]]
         /\ \A x \in DOMAIN f : f[x] \in T
<1>1. PICK D \in SUBSET S : f \in [D -> T]
  BY DEF Partial
<1> QED
  BY <1>1

\* A table with some of the keys and values of the given kinds is one.
LEMMA PartialIntro ==
  ASSUME NEW S, NEW T, NEW D \in SUBSET S, NEW f \in [D -> T]
  PROVE  f \in Partial(S, T)
BY DEF Partial

\* What a Service asks for is owned in its terms: Owns and Claims agree.
LEMMA AsksTypes ==
  ASSUME NEW o \in Object
  PROVE  /\ Asks(o) \in Partial(Label, Host)
         /\ \A l \in Label, h \in Host :
              /\ Owns(Asks(o), l, h) <=> Claims(o, l, h)
              /\ Owns(Asks(o), l, h) => o.port[l] \in Port
<1> DEFINE D == {k \in Label : o.host # NoHost /\ o.port[k] # 0}
<1>1. Asks(o) = [l \in D |-> o.host] /\ DOMAIN Asks(o) = D
  BY DEF Asks
<1>2. D # {} => o.host \in Host
  BY DEF Object
<1>3. \A l \in D : o.port[l] \in Port
  BY DEF Object
<1>4. Asks(o) \in [D -> Host] /\ D \in SUBSET Label
  BY <1>1, <1>2
<1>5. Asks(o) \in Partial(Label, Host)
  BY <1>4, PartialIntro
<1> HIDE DEF D
<1>6. \A l \in Label, h \in Host : Owns(Asks(o), l, h) <=> Claims(o, l, h)
  BY <1>1 DEF Owns, Claims
<1>7. \A l \in Label, h \in Host : Owns(Asks(o), l, h) => o.port[l] \in Port
  BY <1>1, <1>3 DEF Owns
<1> QED
  BY <1>5, <1>6, <1>7

\* Tables f are what Drop leaves of some well-typed tables: a part of them.
Dropped(f, s, tables, next) ==
  /\ f \in [Label -> Partial(Host, Svc \X Port)]
  /\ \A l \in Label, h \in Host :
       /\ h \in DOMAIN f[l] <=>
            /\ h \in DOMAIN tables[l]
            /\ ~Owns(owned[s], l, h) \/ Owns(next, l, h) \/ tables[l][h][1] # s
       /\ h \in DOMAIN f[l] => f[l][h] = tables[l][h]

\* Drop, to that effect.
LEMMA DropEffect ==
  ASSUME NEW s, NEW next, NEW tables \in [Label -> Partial(Host, Svc \X Port)]
  PROVE  Dropped(Drop(s, tables, next), s, tables, next)
<1> DEFINE K(l) == {k \in DOMAIN tables[l] :
                      ~Owns(owned[s], l, k) \/ Owns(next, l, k) \/ tables[l][k][1] # s}
           F(l) == [h \in K(l) |-> tables[l][h]]
<1>1. ASSUME NEW l \in Label PROVE F(l) \in Partial(Host, Svc \X Port)
  <2>1. /\ DOMAIN tables[l] \subseteq Host
        /\ \A x \in DOMAIN tables[l] : tables[l][x] \in Svc \X Port
    BY <1>1, PartialElim
  <2>2. K(l) \in SUBSET Host /\ \A x \in K(l) : tables[l][x] \in Svc \X Port
    BY <2>1
  <2> HIDE DEF K
  <2>3. F(l) \in [K(l) -> Svc \X Port]
    BY <2>2
  <2> QED
    BY <2>2, <2>3, PartialIntro
<1>2. Drop(s, tables, next) = [l \in Label |-> F(l)]
  BY DEF Drop
<1>3. \A l \in Label : DOMAIN F(l) = K(l) /\ \A h \in K(l) : F(l)[h] = tables[l][h]
  OBVIOUS
<1> DEFINE f == Drop(s, tables, next)
<1>4. \A l \in Label, h \in Host :
        h \in K(l) <=> /\ h \in DOMAIN tables[l]
                       /\ ~Owns(owned[s], l, h) \/ Owns(next, l, h) \/ tables[l][h][1] # s
  OBVIOUS
<1> HIDE DEF F, K
<1>5. f \in [Label -> Partial(Host, Svc \X Port)] /\ \A l \in Label : f[l] = F(l)
  BY <1>1, <1>2
<1> HIDE DEF f
<1>6. ASSUME NEW l \in Label, NEW h \in Host
      PROVE  /\ h \in DOMAIN f[l] <=>
                  /\ h \in DOMAIN tables[l]
                  /\ ~Owns(owned[s], l, h) \/ Owns(next, l, h) \/ tables[l][h][1] # s
             /\ h \in DOMAIN f[l] => f[l][h] = tables[l][h]
  <2>1. f[l] = F(l) /\ DOMAIN F(l) = K(l) /\ \A k \in K(l) : F(l)[k] = tables[l][k]
    BY <1>3, <1>5
  <2> QED BY <1>4, <2>1
<1>7. Dropped(f, s, tables, next)
  BY <1>5, <1>6, Zenon DEF Dropped
<1> QED BY <1>7 DEF f

\* What the handler of added and updated Services does: a name the Service
\* claims leads to it, another name keeps its route unless that was this
\* Service's own.
Upserted(s, o) ==
  /\ backends' \in [Label -> Partial(Host, Svc \X Port)]
  /\ owned' = [owned EXCEPT ![s] = Asks(o)]
  /\ owned' \in [Svc -> Partial(Label, Host)]
  /\ \A l \in Label, h \in Host :
       /\ h \in DOMAIN backends'[l] <=>
            \/ Claims(o, l, h)
            \/ h \in DOMAIN backends[l] /\ (~Owns(owned[s], l, h) \/ backends[l][h][1] # s)
       /\ h \in DOMAIN backends'[l] =>
            backends'[l][h] = IF Claims(o, l, h) THEN <<s, o.port[l]>> ELSE backends[l][h]

\* What the handler of deleted ones does: exactly the Service's own routes go.
Deleted(s) ==
  /\ backends' \in [Label -> Partial(Host, Svc \X Port)]
  /\ owned' = [owned EXCEPT ![s] = <<>>]
  /\ owned' \in [Svc -> Partial(Label, Host)]
  /\ \A l \in Label, h \in Host :
       /\ h \in DOMAIN backends'[l] <=>
            h \in DOMAIN backends[l] /\ (~Owns(owned[s], l, h) \/ backends[l][h][1] # s)
       /\ h \in DOMAIN backends'[l] => backends'[l][h] = backends[l][h]

\* Upsert writes first and drops afterwards, to that effect.
LEMMA UpsertEffect ==
  ASSUME RouterTypeOK, NEW s \in Svc, NEW o \in Object, Upsert(s, o)
  PROVE  Upserted(s, o)
<1> DEFINE next == Asks(o)
           D(l) == DOMAIN backends[l] \cup {k \in Host : Owns(next, l, k)}
           W(l) == [h \in D(l) |->
                      IF Owns(next, l, h) THEN <<s, o.port[l]>> ELSE backends[l][h]]
           written == [l \in Label |-> W(l)]
<1>1. backends' = Drop(s, written, next) /\ owned' = [owned EXCEPT ![s] = next]
  BY DEF Upsert
<1>2. /\ next \in Partial(Label, Host)
      /\ \A l \in Label, h \in Host :
           /\ Owns(next, l, h) <=> Claims(o, l, h)
           /\ Owns(next, l, h) => o.port[l] \in Port
  BY AsksTypes
<1> HIDE DEF next
<1>3. ASSUME NEW l \in Label PROVE W(l) \in Partial(Host, Svc \X Port)
  <2>1. /\ DOMAIN backends[l] \subseteq Host
        /\ \A x \in DOMAIN backends[l] : backends[l][x] \in Svc \X Port
    BY <1>3, PartialElim DEF RouterTypeOK
  <2>2. D(l) \in SUBSET Host
    BY <2>1
  <2>3. ASSUME NEW h \in D(l)
        PROVE  (IF Owns(next, l, h) THEN <<s, o.port[l]>> ELSE backends[l][h]) \in Svc \X Port
    <3>1. CASE Owns(next, l, h)
      <4>1. o.port[l] \in Port
        BY <1>2, <2>2, <3>1
      <4> QED
        BY <3>1, <4>1
    <3>2. CASE ~Owns(next, l, h)
      BY <2>1, <3>2
    <3> QED
      BY <3>1, <3>2
  <2> HIDE DEF D
  <2>4. W(l) \in [D(l) -> Svc \X Port]
    BY <2>3
  <2> QED
    BY <2>2, <2>4, PartialIntro
<1>4. /\ written \in [Label -> Partial(Host, Svc \X Port)]
      /\ \A l \in Label : written[l] = W(l)
  BY <1>3
<1>5. \A l \in Label :
        /\ DOMAIN W(l) = DOMAIN backends[l] \cup {k \in Host : Owns(next, l, k)}
        /\ \A h \in DOMAIN W(l) :
             W(l)[h] = IF Owns(next, l, h) THEN <<s, o.port[l]>> ELSE backends[l][h]
  OBVIOUS
<1>6. \A l \in Label :
        /\ DOMAIN written[l] = DOMAIN backends[l] \cup {k \in Host : Owns(next, l, k)}
        /\ \A h \in DOMAIN written[l] :
             written[l][h] = IF Owns(next, l, h) THEN <<s, o.port[l]>> ELSE backends[l][h]
  BY <1>4, <1>5
<1> HIDE DEF written
<1>7. Dropped(backends', s, written, next)
  BY <1>1, <1>4, DropEffect
<1>8. owned' \in [Svc -> Partial(Label, Host)]
  BY <1>1, <1>2 DEF RouterTypeOK
<1>9. ASSUME NEW l \in Label, NEW h \in Host
      PROVE  /\ h \in DOMAIN backends'[l] <=>
                  \/ Claims(o, l, h)
                  \/ h \in DOMAIN backends[l] /\ (~Owns(owned[s], l, h) \/ backends[l][h][1] # s)
             /\ h \in DOMAIN backends'[l] =>
                  backends'[l][h] = IF Claims(o, l, h) THEN <<s, o.port[l]>> ELSE backends[l][h]
  BY <1>2, <1>6, <1>7 DEF Dropped
<1> QED
  BY <1>1, <1>7, <1>8, <1>9 DEF next, Upserted, Dropped

\* Delete, to that effect.
LEMMA DeleteEffect ==
  ASSUME RouterTypeOK, NEW s \in Svc, Delete(s)
  PROVE  Deleted(s)
<1>1. backends' = Drop(s, backends, <<>>) /\ owned' = [owned EXCEPT ![s] = <<>>]
  BY DEF Delete
<1>2. DOMAIN <<>> = {} /\ <<>> \in Partial(Label, Host)
  BY EmptyFunction
<1>3. \A l, h : ~Owns(<<>>, l, h)
  BY <1>2 DEF Owns
<1>4. Dropped(backends', s, backends, <<>>)
  BY <1>1, DropEffect DEF RouterTypeOK
<1>5. owned' \in [Svc -> Partial(Label, Host)]
  BY <1>1, <1>2 DEF RouterTypeOK
<1> QED
  BY <1>1, <1>3, <1>4, <1>5 DEF Deleted, Dropped

\* The names in the tables are names, and lead to Services.
LEMMA TableTypes ==
  ASSUME RouterTypeOK, NEW l \in Label
  PROVE  /\ DOMAIN backends[l] \subseteq Host
         /\ \A h \in DOMAIN backends[l] : backends[l][h][1] \in Svc /\ backends[l][h][2] \in Port
<1>1. /\ DOMAIN backends[l] \subseteq Host
      /\ \A h \in DOMAIN backends[l] : backends[l][h] \in Svc \X Port
  BY PartialElim DEF RouterTypeOK
<1> QED
  BY <1>1

\* A route of Service s is among what s owns.
LEMMA RoutesAreOwned ==
  ASSUME RouterInv, NEW l \in Label, NEW h \in DOMAIN backends[l]
  PROVE  Owns(owned[backends[l][h][1]], l, h)
<1> DEFINE s == backends[l][h][1]
<1>1. s \in DOMAIN seen /\ Claims(seen[s], l, h) /\ s \in Svc /\ h \in Host
  BY TableTypes DEF RouterInv, RoutesAreClaimed
<1>2. seen[s] \in Object
  BY <1>1, PartialElim DEF RouterInv, RouterTypeOK
<1>3. owned[s] = Asks(seen[s])
  BY <1>1 DEF RouterInv, OwnedIsAsked
<1> HIDE DEF s
<1> QED
  BY <1>1, <1>2, <1>3, AsksTypes DEF s

\* An upsert of what is, by now, the Service's last delivered state.
LEMMA InvUpsert ==
  ASSUME RouterInv, NEW s \in Svc, NEW o \in Object, Upsert(s, o),
         svcs' \in Partial(Svc, Object), seen' \in Partial(Svc, Object),
         DOMAIN seen' = DOMAIN seen \cup {s}, seen'[s] = o,
         \A t \in DOMAIN seen \ {s} : seen'[t] = seen[t]
  PROVE  RouterInv'
<1>1. Upserted(s, o)
  BY UpsertEffect DEF RouterInv
<1>2. RouterTypeOK'
  BY <1>1 DEF Upserted, RouterTypeOK
<1>3. OwnedIsAsked'
  BY <1>1 DEF Upserted, RouterInv, RouterTypeOK, OwnedIsAsked
<1>4. RoutesAreClaimed'
  <2> SUFFICES ASSUME NEW l \in Label, NEW h \in DOMAIN backends'[l]
               PROVE  /\ backends'[l][h][1] \in DOMAIN seen'
                      /\ Claims(seen'[backends'[l][h][1]], l, h)
                      /\ backends'[l][h][2] = seen'[backends'[l][h][1]].port[l]
    BY DEF RoutesAreClaimed, Claims, Asks
  <2>1. h \in Host
    BY <1>1, PartialElim DEF Upserted
  <2>2. CASE Claims(o, l, h)
    <3>1. backends'[l][h] = <<s, o.port[l]>>
      BY <1>1, <2>1, <2>2 DEF Upserted
    <3> QED
      BY <2>2, <3>1
  <2>3. CASE ~Claims(o, l, h)
    <3> DEFINE t == backends[l][h][1]
    <3>1. /\ h \in DOMAIN backends[l] /\ backends'[l][h] = backends[l][h]
          /\ ~Owns(owned[s], l, h) \/ t # s
      BY <1>1, <2>1, <2>3 DEF Upserted
    <3>2. t # s
      BY <3>1, RoutesAreOwned
    <3>3. t \in DOMAIN seen /\ Claims(seen[t], l, h) /\ backends[l][h][2] = seen[t].port[l]
      BY <3>1 DEF RouterInv, RoutesAreClaimed
    <3>4. t \in DOMAIN seen' /\ seen'[t] = seen[t]
      BY <3>2, <3>3
    <3> QED
      BY <3>1, <3>3, <3>4
  <2> QED
    BY <2>2, <2>3
<1> QED
  BY <1>2, <1>3, <1>4 DEF RouterInv

\* A Service that is deleted: its routes go with it.
LEMMA InvDelete ==
  ASSUME RouterInv, NEW s \in Svc, Delete(s),
         svcs' \in Partial(Svc, Object), seen' \in Partial(Svc, Object),
         DOMAIN seen' = DOMAIN seen \ {s}, \A t \in DOMAIN seen' : seen'[t] = seen[t]
  PROVE  RouterInv'
<1>1. Deleted(s)
  BY DeleteEffect DEF RouterInv
<1>2. RouterTypeOK'
  BY <1>1 DEF Deleted, RouterTypeOK
<1>3. OwnedIsAsked'
  BY <1>1 DEF Deleted, RouterInv, RouterTypeOK, OwnedIsAsked
<1>4. RoutesAreClaimed'
  <2> SUFFICES ASSUME NEW l \in Label, NEW h \in DOMAIN backends'[l]
               PROVE  /\ backends'[l][h][1] \in DOMAIN seen'
                      /\ Claims(seen'[backends'[l][h][1]], l, h)
                      /\ backends'[l][h][2] = seen'[backends'[l][h][1]].port[l]
    BY DEF RoutesAreClaimed, Claims, Asks
  <2>1. h \in Host
    BY <1>1, PartialElim DEF Deleted
  <2> DEFINE t == backends[l][h][1]
  <2>2. /\ h \in DOMAIN backends[l] /\ backends'[l][h] = backends[l][h]
        /\ ~Owns(owned[s], l, h) \/ t # s
    BY <1>1, <2>1 DEF Deleted
  <2>3. t # s
    BY <2>2, RoutesAreOwned
  <2>4. t \in DOMAIN seen /\ Claims(seen[t], l, h) /\ backends[l][h][2] = seen[t].port[l]
    BY <2>2 DEF RouterInv, RoutesAreClaimed
  <2>5. t \in DOMAIN seen' /\ seen'[t] = seen[t]
    BY <2>3, <2>4
  <2> QED
    BY <2>2, <2>4, <2>5
<1> QED
  BY <1>2, <1>3, <1>4 DEF RouterInv

\* What is written or removed in a partial function.
LEMMA PartialUpdate ==
  ASSUME NEW S, NEW T, NEW f \in Partial(S, T), NEW s \in S, NEW v \in T,
         NEW g, g = [t \in DOMAIN f \cup {s} |-> IF t = s THEN v ELSE f[t]]
  PROVE  /\ g \in Partial(S, T) /\ DOMAIN g = DOMAIN f \cup {s} /\ g[s] = v
         /\ \A t \in DOMAIN f \ {s} : g[t] = f[t]
<1>1. DOMAIN f \subseteq S /\ \A x \in DOMAIN f : f[x] \in T
  BY PartialElim
<1>2. DOMAIN f \cup {s} \in SUBSET S /\ g \in [DOMAIN f \cup {s} -> T]
  BY <1>1
<1> QED
  BY <1>2, PartialIntro

\* Taking a key out of a table leaves the rest of it as it was.
LEMMA PartialRemoval ==
  ASSUME NEW S, NEW T, NEW f \in Partial(S, T), NEW s,
         NEW g, g = [t \in DOMAIN f \ {s} |-> f[t]]
  PROVE  /\ g \in Partial(S, T) /\ DOMAIN g = DOMAIN f \ {s}
         /\ \A t \in DOMAIN g : g[t] = f[t]
<1>1. DOMAIN f \subseteq S /\ \A x \in DOMAIN f : f[x] \in T
  BY PartialElim
<1>2. DOMAIN f \ {s} \in SUBSET S /\ g \in [DOMAIN f \ {s} -> T]
  BY <1>1
<1> QED
  BY <1>2, PartialIntro

\* The router's invariant speaks of these variables only.
LEMMA RouterSame ==
  ASSUME RouterInv, svcs' \in Partial(Svc, Object), UNCHANGED <<seen, backends, owned>>
  PROVE  RouterInv'
<1>1. RouterTypeOK'
  BY DEF RouterInv, RouterTypeOK
<1>2. OwnedIsAsked'
  BY DEF RouterInv, OwnedIsAsked
<1>3. RoutesAreClaimed'
  BY DEF RouterInv, RoutesAreClaimed
<1> QED
  BY <1>1, <1>2, <1>3 DEF RouterInv

\* NewRouter.
LEMMA RouterStart == RouterInit => RouterInv
<1> SUFFICES ASSUME RouterInit PROVE RouterInv
  OBVIOUS
<1>1. /\ <<>> \in Partial(Svc, Object) /\ <<>> \in Partial(Host, Svc \X Port)
      /\ <<>> \in Partial(Label, Host) /\ DOMAIN <<>> = {}
  BY EmptyFunction
<1>2. RouterTypeOK
  BY <1>1 DEF RouterInit, RouterTypeOK
<1>3. OwnedIsAsked
  BY <1>1 DEF RouterInit, OwnedIsAsked
<1>4. RoutesAreClaimed
  <2>1. \A l \in Label : DOMAIN backends[l] = {}
    BY <1>1 DEF RouterInit
  <2> QED
    BY <2>1 DEF RoutesAreClaimed
<1> QED
  BY <1>2, <1>3, <1>4 DEF RouterInv

\* A route that goes is one that its Service no longer claims.
SurvivingRoutes ==
  \A l \in Label : \A h \in DOMAIN backends[l] \ DOMAIN backends'[l] :
    LET s == backends[l][h][1]
    IN s \in DOMAIN seen' => ~Claims(seen'[s], l, h)

\* A delivered or replayed event preserves the router's invariant and removes
\* no route whose Service keeps claiming it.
LEMMA RouterStep ==
  ASSUME RouterInv, NEW s \in Svc, Deliver(s) \/ Replay(s)
  PROVE  RouterInv' /\ SurvivingRoutes
<1> USE DEF RouterInv
<1>1. svcs' \in Partial(Svc, Object) /\ seen \in Partial(Svc, Object)
  BY DEF Deliver, Replay, RouterTypeOK
<1>u. ASSUME NEW o \in Object, Upsert(s, o), s \in DOMAIN seen', seen'[s] = o
      PROVE  SurvivingRoutes
  <2>1. Upserted(s, o)
    BY <1>u, UpsertEffect
  <2> SUFFICES ASSUME NEW l \in Label, NEW h \in DOMAIN backends[l] \ DOMAIN backends'[l]
               PROVE  backends[l][h][1] = s /\ ~Claims(o, l, h)
    BY <1>u DEF SurvivingRoutes, Claims, Asks
  <2>2. h \in Host
    BY TableTypes
  <2> QED
    BY <2>1, <2>2 DEF Upserted
<1>2. CASE s \in DOMAIN svcs /\ Deliver(s)
  <2>1. svcs[s] \in Object
    BY <1>2, PartialElim DEF RouterTypeOK
  <2>2. Upsert(s, svcs[s])
    BY <1>2 DEF Deliver
  <2>3. seen' = [t \in DOMAIN seen \cup {s} |-> IF t = s THEN svcs[s] ELSE seen[t]]
    BY <1>2 DEF Deliver
  <2>4. /\ seen' \in Partial(Svc, Object) /\ DOMAIN seen' = DOMAIN seen \cup {s}
        /\ seen'[s] = svcs[s] /\ \A t \in DOMAIN seen \ {s} : seen'[t] = seen[t]
    BY <1>1, <2>1, <2>3, PartialUpdate
  <2>5. RouterInv'
    BY <1>1, <2>1, <2>2, <2>4, InvUpsert
  <2>6. SurvivingRoutes
    BY <1>u, <2>1, <2>2, <2>4
  <2> QED BY <2>5, <2>6
<1>3. CASE s \notin DOMAIN svcs /\ Deliver(s)
  <2>1. Delete(s) /\ seen' = [t \in DOMAIN seen \ {s} |-> seen[t]]
    BY <1>3 DEF Deliver
  <2>2. /\ seen' \in Partial(Svc, Object) /\ DOMAIN seen' = DOMAIN seen \ {s}
        /\ \A t \in DOMAIN seen' : seen'[t] = seen[t]
    BY <1>1, <2>1, PartialRemoval
  <2>3. RouterInv'
    BY <1>1, <2>1, <2>2, InvDelete
  <2>4. SurvivingRoutes
    <3>1. Deleted(s)
      BY <2>1, DeleteEffect
    <3> SUFFICES ASSUME NEW l \in Label, NEW h \in DOMAIN backends[l] \ DOMAIN backends'[l]
                 PROVE  backends[l][h][1] = s
      BY <2>2 DEF SurvivingRoutes
    <3>2. h \in Host
      BY TableTypes
    <3> QED
      BY <3>1, <3>2 DEF Deleted
  <2> QED BY <2>3, <2>4
<1>4. CASE Replay(s)
  <2>1. s \in DOMAIN seen /\ Upsert(s, seen[s]) /\ UNCHANGED seen
    BY <1>4 DEF Replay
  <2>2. seen[s] \in Object
    BY <1>1, <2>1, PartialElim
  <2>3. DOMAIN seen' = DOMAIN seen \cup {s} /\ seen' \in Partial(Svc, Object)
    BY <1>1, <2>1
  <2>4. RouterInv'
    BY <1>1, <2>1, <2>2, <2>3, InvUpsert
  <2>5. SurvivingRoutes
    BY <1>u, <2>1, <2>2
  <2> QED BY <2>4, <2>5
<1> QED
  BY <1>2, <1>3, <1>4

\* An edit of a Service in the apiserver leaves the router's tables alone.
LEMMA RouterWrite ==
  ASSUME RouterInv, WriteService
  PROVE  RouterInv'
<1>1. PICK s \in Svc :
        \/ \E o \in Object : svcs' = [t \in DOMAIN svcs \cup {s} |-> IF t = s THEN o ELSE svcs[t]]
        \/ svcs' = [t \in DOMAIN svcs \ {s} |-> svcs[t]]
  BY DEF WriteService
<1>2. svcs \in Partial(Svc, Object)
  BY DEF RouterInv, RouterTypeOK
<1>3. svcs' \in Partial(Svc, Object)
  <2>1. ASSUME NEW o \in Object,
               svcs' = [t \in DOMAIN svcs \cup {s} |-> IF t = s THEN o ELSE svcs[t]]
        PROVE  svcs' \in Partial(Svc, Object)
    BY <1>2, <2>1, PartialUpdate
  <2>2. CASE svcs' = [t \in DOMAIN svcs \ {s} |-> svcs[t]]
    BY <1>2, <2>2, PartialRemoval
  <2> QED
    BY <1>1, <2>1, <2>2
<1> QED
  BY <1>3, RouterSame DEF WriteService

-----------------------------------------------------------------------------
(***************************************************************************)
(* The relay.                                                              *)
(***************************************************************************)
\* A connection that has just been accepted has lost nothing.
LEMMA RelayStart == RelayInit => RelayInv
BY RelayAssumption DEF RelayInit, RelayInv, RelayTypeOK, Accounts, DoneIsAll, Dir

\* Accepting, refusing, looking up and dialling move the phase alone.
LEMMA RelayPhase ==
  ASSUME RelayInv,
         phase' \in {"hello", "lookup", "dial", "copy", "closed", "refused"},
         phase' = "hello" => phase = "none",
         phase' = "closed" => done["up"] /\ done["down"],
         UNCHANGED <<sent, eof, reset, peeked, taken, got, fin, done>>
  PROVE  RelayInv'
BY DEF RelayInv, RelayTypeOK, Accounts, DoneIsAll

\* io.Copy moves a unit, or is at its end.
LEMMA RelayMoves ==
  ASSUME RelayInv, NEW d \in Dir, Move(d)
  PROVE  RelayInv'
<1> USE DEF RelayInv
<1>1. /\ phase = "copy" /\ ~done[d]
      /\ got' = [got EXCEPT ![d] = @ + 1]
      /\ UNCHANGED <<phase, sent, eof, reset, fin, done>>
  BY DEF Move, Dialled
<1>2. CASE Replaying(d)
  <2>1. d = "up" /\ peeked = 1 /\ peeked' = 0 /\ UNCHANGED taken
    BY <1>2 DEF Replaying, Move, RelayTypeOK
  <2>2. Accounts'
    BY <1>1, <2>1 DEF Accounts, RelayTypeOK, Dir
  <2>3. RelayTypeOK'
    BY <1>1, <2>1, RelayAssumption DEF RelayTypeOK, Accounts, Dir
  <2>4. DoneIsAll'
    BY <1>1 DEF DoneIsAll, RelayTypeOK
  <2> QED BY <2>2, <2>3, <2>4
<1>3. CASE ~Replaying(d)
  <2>1. /\ taken[d] < sent[d] /\ taken' = [taken EXCEPT ![d] = @ + 1] /\ UNCHANGED peeked
        /\ d = "up" => peeked = 0
    BY <1>3 DEF Replaying, Readable, Move, RelayTypeOK
  <2>2. Accounts'
    BY <1>1, <2>1 DEF Accounts, RelayTypeOK, Dir
  <2>3. RelayTypeOK'
    BY <1>1, <2>1, RelayAssumption DEF RelayTypeOK, Accounts, Dir
  <2>4. DoneIsAll'
    BY <1>1 DEF DoneIsAll, RelayTypeOK
  <2> QED BY <2>2, <2>3, <2>4
<1> QED
  BY <1>2, <1>3

\* A copy that returns without a reset has moved everything.
LEMMA RelayReturns ==
  ASSUME RelayInv, NEW d \in Dir, CopyReturns(d)
  PROVE  RelayInv'
<1> USE DEF RelayInv
<1>1. /\ phase = "copy" /\ CopyEnds(d)
      /\ done' = [done EXCEPT ![d] = TRUE] /\ fin' = [fin EXCEPT ![d] = TRUE]
      /\ UNCHANGED <<phase, sent, eof, reset, peeked, taken, got>>
  BY DEF CopyReturns, CopyEnds, Dialled
<1>2. reset = {} => eof[d] /\ got[d] = sent[d]
  <2> SUFFICES ASSUME reset = {} PROVE eof[d] /\ got[d] = sent[d]
    OBVIOUS
  <2>1. eof[d] /\ ~Replaying(d) /\ ~(taken[d] < sent[d])
    BY <1>1 DEF CopyEnds, Readable
  <2>2. got[d] = taken[d]
    BY <2>1 DEF Accounts, Replaying, RelayTypeOK, Dir
  <2> QED
    BY <2>1, <2>2 DEF Accounts, RelayTypeOK
<1>3. RelayTypeOK' /\ Accounts'
  BY <1>1 DEF RelayTypeOK, Accounts
<1>4. DoneIsAll'
  BY <1>1, <1>2 DEF DoneIsAll, RelayTypeOK
<1> QED
  BY <1>3, <1>4

\* The ends: a source that ended its stream sends no more.
LEMMA RelayEnds ==
  ASSUME RelayInv, Ends
  PROVE  RelayInv'
<1> USE DEF RelayInv
<1>1. ASSUME NEW d \in Dir, Send(d) PROVE RelayInv'
  <2>1. /\ ~eof[d] /\ sent[d] < MaxData /\ sent' = [sent EXCEPT ![d] = @ + 1]
        /\ UNCHANGED <<phase, eof, reset, peeked, taken, got, fin, done>>
    BY <1>1 DEF Send
  <2>2. RelayTypeOK'
    BY <2>1, RelayAssumption DEF RelayTypeOK
  <2>3. Accounts'
    BY <2>1 DEF Accounts, RelayTypeOK
  <2>4. DoneIsAll'
    BY <2>1 DEF DoneIsAll, RelayTypeOK
  <2> QED BY <2>2, <2>3, <2>4
<1>2. ASSUME NEW d \in Dir, Finish(d) PROVE RelayInv'
  BY <1>2 DEF Finish, RelayTypeOK, Accounts, DoneIsAll
<1>3. ASSUME NEW d \in Dir, Reset(d) PROVE RelayInv'
  BY <1>3 DEF Reset, Source, RelayTypeOK, Accounts, DoneIsAll
<1> QED
  BY <1>1, <1>2, <1>3 DEF Ends

\* The ClientHello has been read: it is held until the copy replays it.
LEMMA RelayReads ==
  ASSUME RelayInv, ReadSNI
  PROVE  RelayInv'
<1> USE DEF RelayInv
<1>1. CASE Refuse
  BY <1>1, RelayPhase DEF Refuse
<1>2. CASE /\ sent["up"] > 0
           /\ phase' = "lookup" /\ taken' = [taken EXCEPT !["up"] = 1] /\ peeked' = 1
           /\ UNCHANGED <<sent, eof, reset, got, fin, done>>
  <2>1. taken["up"] = 0 /\ got["up"] = 0 /\ peeked = 0
    BY DEF ReadSNI, Accounts, RelayTypeOK, Dir
  <2>2. RelayTypeOK'
    BY <1>2, RelayAssumption DEF RelayTypeOK, Dir
  <2>3. Accounts'
    BY <1>2, <2>1 DEF Accounts, RelayTypeOK, Dir
  <2>4. DoneIsAll'
    BY <1>2 DEF DoneIsAll
  <2> QED BY <2>2, <2>3, <2>4
<1> QED
  BY <1>1, <1>2 DEF ReadSNI

\* Every step of a connection's handler preserves the relay's accounts.
LEMMA RelayHandles ==
  ASSUME RelayInv, NEW found, RelayStep(found)
  PROVE  RelayInv'
<1>1. CASE Lookup(found)
  BY <1>1, RelayPhase DEF Lookup, Refuse
<1>2. CASE Dial
  BY <1>2, RelayPhase DEF Dial, Refuse
<1>3. CASE Close
  BY <1>3, RelayPhase DEF Close
<1> QED
  BY <1>1, <1>2, <1>3, RelayReads, RelayMoves, RelayReturns DEF RelayStep

\* The relay's invariant is the promise.
LEMMA RelayPromise == RelayInv => NothingLost
BY DEF RelayInv, NothingLost, RelayTypeOK, Accounts, DoneIsAll, Dir

-----------------------------------------------------------------------------
(***************************************************************************)
(* The syncer, and the process as a whole.                                 *)
(***************************************************************************)
\* Every step around the external-IP syncer preserves its types.
LEMMA SyncerTypes ==
  ASSUME SyncerTypeOK, SyncStep \/ SyncFails \/ NodeEvent \/ ChangeNodes \/ ChangeType
  PROVE  SyncerTypeOK'
BY DEF SyncerTypeOK, SyncStep, TakeTrigger, TimerFires, ListNodes, GetService, PatchService,
       SyncFails, NodeEvent, ChangeNodes, ChangeType

\* A router that has just started satisfies the invariant.
LEMMA InvInit == Init => IInv
<1> SUFFICES ASSUME Init PROVE IInv
  OBVIOUS
<1>1. RouterInv /\ RelayInv
  BY RouterStart, RelayStart DEF Init
<1>2. SyncerTypeOK
  BY DEF Init, SyncerInit, SyncerTypeOK
<1>3. 0 \in 0..MaxOps /\ phase = "none"
  BY EdgeAssumption DEF Init, RelayInit
<1> QED
  BY <1>1, <1>2, <1>3 DEF Init, IInv

\* The parts that a step leaves alone.
LEMMA PartsSame ==
  /\ RouterInv /\ UNCHANGED routerVars => RouterInv'
  /\ RelayInv /\ UNCHANGED relayVars => RelayInv'
  /\ SyncerTypeOK /\ UNCHANGED syncerVars => SyncerTypeOK'
<1>1. ASSUME RouterInv, UNCHANGED routerVars PROVE RouterInv'
  BY <1>1, RouterSame DEF routerVars, RouterInv, RouterTypeOK
<1>2. ASSUME RelayInv, UNCHANGED relayVars PROVE RelayInv'
  BY <1>2 DEF relayVars, RelayInv, RelayTypeOK, Accounts, DoneIsAll
<1>3. ASSUME SyncerTypeOK, UNCHANGED syncerVars PROVE SyncerTypeOK'
  BY <1>3 DEF syncerVars, SyncerTypeOK
<1> QED
  BY <1>1, <1>2, <1>3

\* Every step of the process preserves the invariant.
LEMMA InvNext == IInv /\ [Next]_vars => IInv'
<1> SUFFICES ASSUME IInv, [Next]_vars PROVE IInv'
  OBVIOUS
<1> USE DEF IInv
<1>1. CASE RouterNext
  BY <1>1, RouterStep, PartsSame DEF RouterNext, relayVars
<1>2. CASE HandleNext
  <2>1. RelayInv'
    BY <1>2, RelayHandles DEF HandleNext
  <2> QED
    BY <1>2, <2>1, PartsSame DEF HandleNext
<1>3. CASE EndsNext
  BY <1>3, RelayEnds, PartsSame DEF EndsNext, Ends, Send, Finish, Reset
<1>4. CASE SyncerNext
  BY <1>4, SyncerTypes, PartsSame DEF SyncerNext, relayVars
<1>5. CASE Operate
  <2>1. ops' \in 0..MaxOps /\ UNCHANGED <<syncing, target, relayVars>>
    BY <1>5, EdgeAssumption DEF Operate
  <2>2. RouterInv' /\ SyncerTypeOK'
    BY <1>5, RouterWrite, SyncerTypes, PartsSame DEF Operate
  <2> QED
    BY <2>1, <2>2, PartsSame DEF relayVars
<1>6. CASE Serve
  <2>1. /\ ops' \in 0..MaxOps /\ target' \in Label \X Host
        /\ UNCHANGED <<routerVars, syncerVars, syncing>>
    BY <1>6, EdgeAssumption DEF Serve
  <2>2. RelayInv'
    BY <1>6, RelayPhase DEF Serve, Accept
  <2> QED
    BY <2>1, <2>2, PartsSame
<1>7. CASE UNCHANGED vars
  BY <1>7, PartsSame DEF vars, relayVars
<1> QED
  BY <1>1, <1>2, <1>3, <1>4, <1>5, <1>6, <1>7 DEF Next

\* The invariant holds throughout.
LEMMA EdgeInvariant == Spec => []IInv
BY InvInit, InvNext, PTL DEF Spec

-----------------------------------------------------------------------------
\* Every variable stays in its range; in particular the relay never delivers
\* more units than were sent.
THEOREM TypeCorrect == Spec => []TypeOK
<1>1. IInv => TypeOK
  BY DEF IInv, RouterInv, RelayInv, TypeOK
<1> QED
  BY <1>1, EdgeInvariant, PTL

\* No route outlives its claim: upsert and delete leave no entry behind that
\* its Service, as last delivered, does not ask for.
THEOREM ClaimedRoutes == Spec => []RoutesAreClaimed
<1>1. IInv => RoutesAreClaimed
  BY DEF IInv, RouterInv
<1> QED
  BY <1>1, EdgeInvariant, PTL

\* A name stops being routed only when the Service it was routed to gives it
\* up, however many Services claim the same name and whatever is replayed.
THEOREM PeersKeepRoutes == Spec => PeerRoutesSurvive
<1>1. IInv /\ [Next]_vars => [SurvivingRoutes]_routerVars
  <2> SUFFICES ASSUME IInv, Next, ~UNCHANGED routerVars
               PROVE  SurvivingRoutes
    BY DEF vars
  <2>1. CASE RouterNext
    BY <2>1, RouterStep DEF RouterNext, IInv
  <2>2. CASE Operate
    <3>1. UNCHANGED backends
      BY <2>2 DEF Operate, WriteService, routerVars
    <3> QED
      BY <3>1 DEF SurvivingRoutes
  <2> QED
    BY <2>1, <2>2 DEF Next, HandleNext, EndsNext, SyncerNext, Serve
<1> QED
  BY <1>1, EdgeInvariant, PTL DEF Spec, PeerRoutesSurvive, SurvivingRoutes

\* The relay of Router.Handle (and of tenant-apiserver-proxy's handle) drops
\* nothing and ends nothing early, the replayed ClientHello included.
THEOREM StreamsAreWhole == Spec => []NothingLost
<1>1. IInv => NothingLost
  BY RelayPromise DEF IInv
<1> QED
  BY <1>1, EdgeInvariant, PTL
=============================================================================

--------------------------- MODULE RelayHubProofs ---------------------------
(***************************************************************************)
(* Theorems of RelayHub, for every finite set of relay set-ups and every   *)
(* set of request streams that come for them: the types, that a waiting    *)
(* stream can be found, and that the relay implements Meeting; and of      *)
(* Client, for any number of calls and commands.                           *)
(***************************************************************************)
EXTENDS RelayHub, Client, FiniteSetTheorems, TLAPS

Drawn == {s \in Setups : sid[s] # 0}

(* Session IDs: two set-ups never share one, and none is above the last.   *)
IDInv ==
  /\ lastID = Cardinality(Drawn)
  /\ \A s \in Setups : sid[s] <= lastID
  /\ \A s, t \in Setups : sid[s] # 0 /\ sid[s] = sid[t] => s = t

(* A handler runs only for an end that was told its ID.                    *)
ToldInv == \A e \in Ends : pc[e] # "new" => ID(e) # 0

(* An entry of the map is a stream that waits alone for that very ID.      *)
MapInv ==
  \A i \in IDs, f \in Ends : relayWaiting[i] = f => Alone(f) /\ ID(f) = i

(* The two streams of a relay know each other and are of one set-up; only  *)
(* a handler that has met the other one, or was met, has a partner.        *)
PartnerInv ==
  \A e \in Ends :
    /\ partner[e] # NoEnd =>
         /\ partner[e] # e
         /\ partner[partner[e]] = e
         /\ SetupOf(partner[e]) = SetupOf(e)
    /\ pc[e] \in {"new", "checked"} => partner[e] = NoEnd
    /\ pc[e] = "met" => partner[e] # NoEnd
    /\ e \in ready => partner[e] # NoEnd

Inv == TypeOK /\ IDInv /\ ToldInv /\ MapInv /\ PartnerInv /\ WaiterFindable
-----------------------------------------------------------------------------
(* At most two streams come for a set-up, its host's and its peer's.       *)
LEMMA TwoEnds ==
  ASSUME NEW e \in Ends, NEW f \in Ends, NEW g \in Ends,
         SetupOf(e) = SetupOf(f), SetupOf(f) = SetupOf(g), e # f, g # e
  PROVE  g = f
  BY EndsAssumption DEF SetupOf

(* Every end belongs to a set-up.                                          *)
LEMMA SetupOfType == \A e \in Ends : SetupOf(e) \in Setups
  BY EndsAssumption DEF SetupOf

(* There are finitely many IDs, and 0 is one of them.                      *)
LEMMA IDsType == Cardinality(Setups) \in Nat /\ IDs \subseteq Nat /\ 0 \in IDs
<1>1. Cardinality(Setups) \in Nat
  BY EndsAssumption, FS_CardinalityType
<1> QED
  BY <1>1 DEF IDs

(* A session ID stands for one set-up only.                                *)
LEMMA SameID ==
  ASSUME TypeOK, IDInv, NEW e \in Ends, NEW f \in Ends, ID(e) # 0, ID(e) = ID(f)
  PROVE  SetupOf(e) = SetupOf(f)
  BY SetupOfType DEF IDInv, ID

(* initRelay draws an ID that is new and in range.                         *)
LEMMA InitRelayIDs ==
  ASSUME TypeOK, IDInv, NEW s \in Setups, InitRelay(s)
  PROVE  /\ sid' \in [Setups -> IDs]
         /\ lastID' \in IDs
         /\ IDInv'
<1> USE IDsType
<1>1. sid \in [Setups -> IDs] /\ lastID \in Nat /\ lastID' = lastID + 1
      /\ sid' = [sid EXCEPT ![s] = lastID + 1] /\ sid[s] = 0
  BY DEF TypeOK, InitRelay, newSessionID
<1>2. IsFiniteSet(Drawn) /\ Drawn \subseteq Setups
  BY EndsAssumption, FS_Subset DEF Drawn
<1>3. Drawn' = Drawn \cup {s} /\ s \notin Drawn
  BY <1>1 DEF Drawn
<1>4. Cardinality(Drawn') = lastID'
  BY <1>1, <1>2, <1>3, FS_AddElement DEF IDInv
<1>5. Drawn' \subseteq Setups
  BY <1>2, <1>3
<1>6. lastID' <= Cardinality(Setups)
  BY <1>4, <1>5, EndsAssumption, FS_Subset
<1>7. lastID' \in IDs
  BY <1>1, <1>6 DEF IDs
<1>8. sid' \in [Setups -> IDs]
  BY <1>1, <1>7
<1>9. \A t \in Setups : sid[t] \in Nat /\ sid[t] <= lastID
  BY <1>1 DEF IDInv
<1>10. \A t \in Setups : sid'[t] <= lastID'
  BY <1>1, <1>9
<1>11. \A t, u \in Setups : sid'[t] # 0 /\ sid'[t] = sid'[u] => t = u
  <2> SUFFICES ASSUME NEW t \in Setups, NEW u \in Setups,
                      sid'[t] # 0, sid'[t] = sid'[u]
               PROVE  t = u
    OBVIOUS
  <2>1. CASE t = s \/ u = s
    BY <2>1, <1>1, <1>9
  <2>2. CASE t # s /\ u # s
    BY <2>2, <1>1 DEF IDInv
  <2> QED
    BY <2>1, <2>2
<1> QED
  BY <1>4, <1>7, <1>8, <1>10, <1>11 DEF IDInv

(* The second arrival takes a stream of its own set-up that waits alone.   *)
LEMMA MeetFacts ==
  ASSUME Inv, NEW e \in Ends, Meet(e)
  PROVE  /\ ID(e) \in IDs /\ ID(e) # 0
         /\ relayWaiting[ID(e)] \in Ends
         /\ relayWaiting[ID(e)] # e
         /\ Alone(relayWaiting[ID(e)])
         /\ ID(relayWaiting[ID(e)]) = ID(e)
         /\ SetupOf(relayWaiting[ID(e)]) = SetupOf(e)
         /\ partner[e] = NoEnd
<1>1. ID(e) \in IDs /\ ID(e) # 0
  BY SetupOfType DEF Inv, TypeOK, ID, ToldInv, Meet
<1>2. relayWaiting[ID(e)] \in Ends /\ relayWaiting[ID(e)] # NoEnd
  BY <1>1 DEF Inv, TypeOK, Meet, SomeoneWaits
<1>3. Alone(relayWaiting[ID(e)]) /\ ID(relayWaiting[ID(e)]) = ID(e)
  BY <1>1, <1>2 DEF Inv, MapInv
<1>4. relayWaiting[ID(e)] # e
  BY <1>3 DEF Alone, Meet
<1>5. SetupOf(relayWaiting[ID(e)]) = SetupOf(e)
  BY <1>1, <1>2, <1>3, SameID DEF Inv
<1> QED
  BY <1>1, <1>2, <1>3, <1>4, <1>5 DEF Inv, PartnerInv, Meet

(* The waiting stream whose entry an end finds at its ID is the other end. *)
LEMMA WaiterFacts ==
  ASSUME Inv, NEW e \in Ends, pc[e] # "new"
  PROVE  /\ ID(e) \in IDs /\ ID(e) # 0
         /\ \A f \in Ends : Alone(f) /\ SetupOf(f) = SetupOf(e)
                            => relayWaiting[ID(e)] = f
         /\ \A f \in Ends : f # e /\ Alone(f) /\ SetupOf(f) = SetupOf(e)
                            => partner[e] = NoEnd
<1>1. ID(e) \in IDs /\ ID(e) # 0
  BY SetupOfType DEF Inv, TypeOK, ID, ToldInv
<1>2. ASSUME NEW f \in Ends, Alone(f), SetupOf(f) = SetupOf(e)
      PROVE  relayWaiting[ID(e)] = f
  BY <1>2 DEF Inv, WaiterFindable, ID
<1>3. ASSUME NEW f \in Ends, f # e, Alone(f), SetupOf(f) = SetupOf(e)
      PROVE  partner[e] = NoEnd
  <2> SUFFICES ASSUME partner[e] # NoEnd PROVE FALSE
    OBVIOUS
  <2>1. /\ partner[e] \in Ends /\ partner[e] # e
        /\ SetupOf(partner[e]) = SetupOf(e) /\ partner[partner[e]] = e
    BY DEF Inv, TypeOK, PartnerInv
  <2>2. partner[e] = f
    BY <1>3, <2>1, TwoEnds
  <2> QED
    BY <1>3, <2>1, <2>2, EndsAssumption DEF Alone
<1> QED
  BY <1>1, <1>2, <1>3

(* Every action keeps the types.                                           *)
LEMMA TypeStep == Inv /\ [Next]_vars => TypeOK'
<1> SUFFICES ASSUME Inv, [Next]_vars PROVE TypeOK'
  OBVIOUS
<1> USE DEF Inv
<1>1. ASSUME NEW s \in Setups, InitRelay(s) PROVE TypeOK'
  BY <1>1, InitRelayIDs DEF InitRelay, TypeOK
<1>2. ASSUME NEW e \in Ends, RelayRequest(e) PROVE TypeOK'
  BY <1>2 DEF RelayRequest, TypeOK
<1>3. ASSUME NEW e \in Ends, Meet(e) PROVE TypeOK'
  BY <1>3, MeetFacts DEF Meet, TakeWaiting, TypeOK
<1>4. ASSUME NEW e \in Ends, CloseReady(e) PROVE TypeOK'
  BY <1>4 DEF CloseReady, PartnerInv, TypeOK
<1>5. ASSUME NEW e \in Ends, Wait(e) PROVE TypeOK'
  BY <1>5 DEF Wait, TypeOK
<1>6. ASSUME NEW e \in Ends, WaiterGone(e) PROVE TypeOK'
  BY <1>6 DEF WaiterGone, TypeOK
<1>7. ASSUME NEW e \in Ends, WaiterReady(e) PROVE TypeOK'
  BY <1>7 DEF WaiterReady, TypeOK
<1>8. ASSUME NEW e \in Ends, Receive(e) PROVE TypeOK'
  BY <1>8 DEF Receive, TypeOK
<1>9. ASSUME NEW e \in Ends, Send(e) PROVE TypeOK'
  BY <1>9 DEF Send, TypeOK
<1>10. ASSUME NEW e \in Ends, Disconnect(e) \/ ForgetConn(e) \/ HangUp(e)
       PROVE  TypeOK'
  BY <1>10 DEF Disconnect, ForgetConn, HangUp, TypeOK
<1>11. CASE JoinsReturn \/ Close
  BY <1>11 DEF JoinsReturn, Close, TypeOK
<1>12. CASE UNCHANGED vars
  BY <1>12 DEF vars, TypeOK
<1> QED
  BY <1>1, <1>2, <1>3, <1>4, <1>5, <1>6, <1>7, <1>8, <1>9, <1>10, <1>11, <1>12
  DEF Next, Handler, Copier

(* The steps that only concern a goroutine of relay(), a connection or     *)
(* Server.Close leave alone what the map of waiting streams rests on.      *)
LEMMA OtherSteps ==
  ASSUME Inv, UNCHANGED <<sid, lastID, pc, relayWaiting, ready, partner>>
  PROVE  IDInv' /\ ToldInv' /\ MapInv' /\ PartnerInv' /\ WaiterFindable'
  BY DEF Inv, IDInv, Drawn, ToldInv, MapInv, PartnerInv, WaiterFindable, Alone, ID

(* Every action keeps the invariant: a handler's step disturbs the map of  *)
(* waiting streams only at its own ID.                                     *)
LEMMA InvStep == Inv /\ [Next]_vars => Inv'
<1> SUFFICES ASSUME Inv, [Next]_vars PROVE Inv'
  OBVIOUS
<1>0. TypeOK' /\ TypeOK
  BY TypeStep DEF Inv
<1> USE SetupOfType, IDsType
<1>1. ASSUME NEW s \in Setups, InitRelay(s) PROVE Inv'
  <2>1. \A e \in Ends : ID(e) # 0 => ID(e)' = ID(e)
    BY <1>1, <1>0 DEF InitRelay, ID, TypeOK
  <2>2. \A e \in Ends : pc[e] # "new" => ID(e)' = ID(e) /\ ID(e) # 0
    BY <2>1 DEF Inv, ToldInv
  <2>3. IDInv'
    BY <1>1, InitRelayIDs DEF Inv
  <2>4. UNCHANGED <<pc, relayWaiting, ready, partner>>
    BY <1>1 DEF InitRelay
  <2>5. ToldInv'
    BY <2>2, <2>4 DEF ToldInv
  <2>6. \A e \in Ends : Alone(e)' = Alone(e) /\ (Alone(e) => ID(e)' = ID(e))
    BY <2>2, <2>4 DEF Alone
  <2>7. MapInv'
    BY <2>4, <2>6, <1>0 DEF Inv, MapInv, TypeOK
  <2>8. WaiterFindable'
    BY <2>4, <2>6 DEF Inv, WaiterFindable
  <2>9. PartnerInv'
    BY <2>4 DEF Inv, PartnerInv
  <2> QED
    BY <1>0, <2>3, <2>5, <2>7, <2>8, <2>9 DEF Inv
<1>2. ASSUME NEW e \in Ends, RelayRequest(e) PROVE Inv'
  <2>1. UNCHANGED <<sid, lastID, relayWaiting, ready, partner>> /\ pc[e] = "new"
        /\ ID(e) # 0 /\ pc' = [pc EXCEPT ![e] = pc'[e]]
        /\ pc'[e] \in {"checked", "returned"}
    BY <1>2, <1>0 DEF RelayRequest, TypeOK
  <2>2. \A f \in Ends : Alone(f)' = Alone(f) /\ ID(f)' = ID(f)
    BY <2>1, <1>0 DEF Alone, ID, TypeOK
  <2>3. IDInv' /\ ToldInv'
    BY <2>1, <2>2, <1>0 DEF Inv, IDInv, Drawn, ToldInv, TypeOK
  <2>4. MapInv' /\ WaiterFindable'
    BY <2>1, <2>2, <1>0 DEF Inv, MapInv, WaiterFindable, TypeOK
  <2>5. PartnerInv'
    BY <2>1, <1>0 DEF Inv, PartnerInv, TypeOK
  <2> QED
    BY <1>0, <2>3, <2>4, <2>5 DEF Inv
<1>3. ASSUME NEW e \in Ends, Meet(e) PROVE Inv'
  <2> DEFINE g == relayWaiting[ID(e)]
  <2> HIDE DEF g
  <2>1. /\ ID(e) \in IDs /\ ID(e) # 0 /\ g \in Ends /\ g # e /\ Alone(g)
        /\ ID(g) = ID(e) /\ SetupOf(g) = SetupOf(e) /\ partner[e] = NoEnd
        /\ relayWaiting[ID(e)] = g
    BY <1>3, MeetFacts DEF g
  <2>2. /\ UNCHANGED <<sid, lastID, ready>>
        /\ pc[e] = "checked" /\ pc' = [pc EXCEPT ![e] = "met"]
        /\ partner' = [partner EXCEPT ![e] = g, ![g] = e]
        /\ relayWaiting' = [relayWaiting EXCEPT ![ID(e)] = NoEnd]
    BY <1>3 DEF Meet, TakeWaiting, g
  <2>3. \A f \in Ends : /\ ID(f)' = ID(f)
                        /\ Alone(f)' <=> (Alone(f) /\ f # g)
    BY <2>1, <2>2, <1>0, EndsAssumption DEF Alone, ID, TypeOK
  <2>4. IDInv' /\ ToldInv'
    BY <2>1, <2>2, <2>3, <1>0 DEF Inv, IDInv, Drawn, ToldInv, TypeOK
  <2>5. MapInv'
    <3> SUFFICES ASSUME NEW i \in IDs, NEW f \in Ends, relayWaiting'[i] = f
                 PROVE  Alone(f)' /\ ID(f)' = i
      BY DEF MapInv
    <3>1. i # ID(e) /\ relayWaiting[i] = f
      BY <2>2, <2>1, <1>0, EndsAssumption DEF TypeOK
    <3>2. Alone(f) /\ ID(f) = i
      BY <3>1 DEF Inv, MapInv
    <3> QED
      BY <2>1, <2>3, <3>1, <3>2
  <2>6. WaiterFindable'
    <3> SUFFICES ASSUME NEW f \in Ends, Alone(f)'
                 PROVE  relayWaiting'[ID(f)'] = f
      BY DEF WaiterFindable
    <3>1. Alone(f) /\ f # g /\ ID(f)' = ID(f) /\ relayWaiting[ID(f)] = f
      BY <2>3 DEF Inv, WaiterFindable
    <3>2. ID(f) # ID(e) /\ ID(f) \in IDs
      BY <2>1, <3>1, <1>0 DEF ID, TypeOK
    <3> QED
      BY <2>2, <3>1, <3>2, <1>0 DEF TypeOK
  <2>7. PartnerInv'
    <3> SUFFICES ASSUME NEW f \in Ends
                 PROVE  /\ partner'[f] # NoEnd =>
                             /\ partner'[f] # f
                             /\ partner'[partner'[f]] = f
                             /\ SetupOf(partner'[f]) = SetupOf(f)
                        /\ pc'[f] \in {"new", "checked"} => partner'[f] = NoEnd
                        /\ pc'[f] = "met" => partner'[f] # NoEnd
                        /\ f \in ready' => partner'[f] # NoEnd
      BY DEF PartnerInv, SetupOf
    <3>1. CASE f = e \/ f = g
      BY <3>1, <2>1, <2>2, <1>0, EndsAssumption DEF Alone, TypeOK
    <3>2. CASE f # e /\ f # g
      <4>1. partner'[f] = partner[f] /\ pc'[f] = pc[f] /\ ready' = ready
        BY <3>2, <2>1, <2>2, <1>0 DEF TypeOK
      <4>2. partner[f] # NoEnd =>
              partner[f] \in Ends /\ partner[f] # e /\ partner[f] # g
        BY <2>1, <1>0, EndsAssumption DEF Inv, PartnerInv, Alone, TypeOK
      <4>3. partner[f] # NoEnd => partner'[partner[f]] = partner[partner[f]]
        BY <2>2, <2>1, <4>2, <1>0 DEF TypeOK
      <4> QED
        BY <4>1, <4>2, <4>3 DEF Inv, PartnerInv
    <3> QED
      BY <3>1, <3>2
  <2> QED
    BY <1>0, <2>4, <2>5, <2>6, <2>7 DEF Inv
<1>4. ASSUME NEW e \in Ends, CloseReady(e) PROVE Inv'
  <2>1. /\ UNCHANGED <<sid, lastID, relayWaiting, partner>> /\ pc[e] = "met"
        /\ pc' = [pc EXCEPT ![e] = "returned"] /\ ready' = ready \cup {partner[e]}
    BY <1>4 DEF CloseReady
  <2>2. \A f \in Ends : Alone(f)' = Alone(f) /\ ID(f)' = ID(f)
    BY <2>1, <1>0 DEF Alone, ID, TypeOK
  <2>3. IDInv' /\ ToldInv'
    BY <2>1, <2>2, <1>0 DEF Inv, IDInv, Drawn, ToldInv, TypeOK
  <2>4. MapInv' /\ WaiterFindable'
    BY <2>1, <2>2, <1>0 DEF Inv, MapInv, WaiterFindable, TypeOK
  <2>5. partner[e] \in Ends /\ partner[partner[e]] = e
    BY <2>1, <1>0 DEF Inv, PartnerInv, TypeOK
  <2>6. PartnerInv'
    BY <2>1, <2>5, <1>0, EndsAssumption DEF Inv, PartnerInv, TypeOK
  <2> QED
    BY <1>0, <2>3, <2>4, <2>6 DEF Inv
<1>5. ASSUME NEW e \in Ends, Wait(e) PROVE Inv'
  <2>1. /\ UNCHANGED <<sid, lastID, ready, partner>> /\ pc[e] = "checked"
        /\ relayWaiting[ID(e)] = NoEnd
        /\ relayWaiting' = [relayWaiting EXCEPT ![ID(e)] = e]
        /\ pc' = [pc EXCEPT ![e] = "waiting"]
    BY <1>5 DEF Wait, SomeoneWaits
  <2>2. ID(e) \in IDs /\ ID(e) # 0 /\ partner[e] = NoEnd
    BY <2>1, WaiterFacts DEF Inv, PartnerInv
  <2>3. \A f \in Ends : /\ ID(f)' = ID(f) /\ ID(f) \in IDs
                        /\ Alone(f)' <=> (Alone(f) \/ f = e)
    BY <2>1, <2>2, <1>0 DEF Alone, ID, TypeOK
  <2>4. IDInv' /\ ToldInv'
    BY <2>1, <2>2, <2>3, <1>0 DEF Inv, IDInv, Drawn, ToldInv, TypeOK
  <2>5. MapInv'
    <3> SUFFICES ASSUME NEW i \in IDs, NEW f \in Ends, relayWaiting'[i] = f
                 PROVE  Alone(f)' /\ ID(f)' = i
      BY DEF MapInv
    <3>1. CASE i = ID(e)
      BY <3>1, <2>1, <2>2, <2>3, <1>0 DEF TypeOK
    <3>2. CASE i # ID(e)
      <4>1. relayWaiting[i] = f
        BY <3>2, <2>1, <2>2, <1>0 DEF TypeOK
      <4> QED
        BY <4>1, <2>3 DEF Inv, MapInv
    <3> QED
      BY <3>1, <3>2
  <2>6. WaiterFindable'
    <3> SUFFICES ASSUME NEW f \in Ends, Alone(f)'
                 PROVE  relayWaiting'[ID(f)'] = f
      BY DEF WaiterFindable
    <3>1. CASE f = e
      BY <3>1, <2>1, <2>2, <2>3, <1>0 DEF TypeOK
    <3>2. CASE f # e
      <4>1. Alone(f) /\ relayWaiting[ID(f)] = f /\ ID(f) # ID(e)
        BY <3>2, <2>1, <2>3, EndsAssumption DEF Inv, WaiterFindable
      <4> QED
        BY <4>1, <2>1, <2>2, <2>3, <1>0 DEF TypeOK
    <3> QED
      BY <3>1, <3>2
  <2>7. PartnerInv'
    BY <2>1, <2>2, <1>0 DEF Inv, PartnerInv, TypeOK
  <2> QED
    BY <1>0, <2>4, <2>5, <2>6, <2>7 DEF Inv
<1>6. ASSUME NEW e \in Ends, WaiterGone(e) PROVE Inv'
  <2>1. /\ UNCHANGED <<sid, lastID, ready, partner>> /\ pc[e] = "waiting"
        /\ relayWaiting' = [relayWaiting EXCEPT ![ID(e)] = NoEnd]
        /\ pc' = [pc EXCEPT ![e] = "returned"]
    BY <1>6 DEF WaiterGone
  <2>2. ID(e) \in IDs /\ ID(e) # 0
    BY <2>1, WaiterFacts
  <2>3. \A f \in Ends : /\ ID(f)' = ID(f) /\ ID(f) \in IDs
                        /\ Alone(f)' <=> (Alone(f) /\ f # e)
    BY <2>1, <1>0 DEF Alone, ID, TypeOK
  <2>4. IDInv' /\ ToldInv'
    BY <2>1, <2>2, <2>3, <1>0 DEF Inv, IDInv, Drawn, ToldInv, TypeOK
  <2>5. \A f \in Ends : Alone(f) /\ ID(f) = ID(e) => f = e
    <3> SUFFICES ASSUME NEW f \in Ends, Alone(f), ID(f) = ID(e), f # e
                 PROVE  FALSE
      OBVIOUS
    <3>1. SetupOf(f) = SetupOf(e)
      BY <2>2, <1>0, SameID DEF Inv
    <3>2. relayWaiting[ID(e)] = f /\ partner[e] = NoEnd
      BY <2>1, <3>1, WaiterFacts
    <3>3. Alone(e)
      BY <2>1, <3>2 DEF Alone
    <3> QED
      BY <3>2, <3>3 DEF Inv, WaiterFindable
  <2>6. MapInv'
    <3> SUFFICES ASSUME NEW i \in IDs, NEW f \in Ends, relayWaiting'[i] = f
                 PROVE  Alone(f)' /\ ID(f)' = i
      BY DEF MapInv
    <3>1. i # ID(e) /\ relayWaiting[i] = f
      BY <2>1, <2>2, <1>0, EndsAssumption DEF TypeOK
    <3> QED
      BY <3>1, <2>3 DEF Inv, MapInv
  <2>7. WaiterFindable'
    BY <2>1, <2>2, <2>3, <2>5, <1>0 DEF Inv, WaiterFindable, TypeOK
  <2>8. PartnerInv'
    BY <2>1, <1>0 DEF Inv, PartnerInv, TypeOK
  <2> QED
    BY <1>0, <2>4, <2>6, <2>7, <2>8 DEF Inv
<1>7. ASSUME NEW e \in Ends, WaiterReady(e) PROVE Inv'
  <2>1. /\ UNCHANGED <<sid, lastID, ready, partner, relayWaiting>>
        /\ pc[e] = "waiting" /\ e \in ready /\ pc' = [pc EXCEPT ![e] = "returned"]
    BY <1>7 DEF WaiterReady
  <2>2. \A f \in Ends : Alone(f)' = Alone(f) /\ ID(f)' = ID(f)
    BY <2>1, <1>0 DEF Inv, PartnerInv, Alone, ID, TypeOK
  <2>3. IDInv' /\ ToldInv'
    BY <2>1, <2>2, <1>0 DEF Inv, IDInv, Drawn, ToldInv, TypeOK
  <2>4. MapInv' /\ WaiterFindable'
    BY <2>1, <2>2, <1>0 DEF Inv, MapInv, WaiterFindable, TypeOK
  <2>5. PartnerInv'
    BY <2>1, <1>0 DEF Inv, PartnerInv, TypeOK
  <2> QED
    BY <1>0, <2>3, <2>4, <2>5 DEF Inv
<1>8. ASSUME NEW e \in Ends,
             Copier(e) \/ Disconnect(e) \/ ForgetConn(e) \/ HangUp(e)
      PROVE  Inv'
  <2>1. UNCHANGED <<sid, lastID, pc, relayWaiting, ready, partner>>
    BY <1>8 DEF Copier, Receive, Send, Disconnect, ForgetConn, HangUp
  <2> QED
    BY <1>0, <2>1, OtherSteps DEF Inv
<1>9. CASE JoinsReturn \/ Close \/ UNCHANGED vars
  <2>1. UNCHANGED <<sid, lastID, pc, relayWaiting, ready, partner>>
    BY <1>9 DEF JoinsReturn, Close, vars
  <2> QED
    BY <1>0, <2>1, OtherSteps DEF Inv
<1> QED
  BY <1>1, <1>2, <1>3, <1>4, <1>5, <1>6, <1>7, <1>8, <1>9 DEF Next, Handler

(* The empty server satisfies the invariant.                               *)
LEMMA InvInit == Init => Inv
<1> SUFFICES ASSUME Init PROVE Inv
  OBVIOUS
<1>1. TypeOK
  BY IDsType DEF Init, TypeOK
<1>2. Drawn = {}
  BY DEF Init, Drawn
<1>3. Cardinality(Drawn) = 0
  BY <1>2, FS_EmptySet
<1>4. IDInv
  BY <1>3 DEF Init, IDInv
<1>5. ToldInv /\ MapInv /\ PartnerInv /\ WaiterFindable
  BY EndsAssumption DEF Init, ToldInv, MapInv, PartnerInv, WaiterFindable, Alone
<1> QED
  BY <1>1, <1>4, <1>5 DEF Inv

(* The invariant holds in every state of the relay.                        *)
LEMMA AlwaysInv == Spec => []Inv
  BY InvInit, InvStep, PTL DEF Spec

(* Every variable of the relay keeps its type, whatever order the streams, *)
(* the failures and Server.Close come in; in particular every session ID   *)
(* newSessionID draws is one of the model's range.                         *)
THEOREM RelayTypes == Spec => []TypeOK
<1>1. Inv => TypeOK
  BY DEF Inv
<1> QED
  BY <1>1, AlwaysInv, PTL

(* A stream that waits without a partner is in relayWaiting under its ID:  *)
(* the unconditional delete of a leaving waiter (Server.Relay) never takes *)
(* away the entry of another stream.                                       *)
THEOREM WaiterIsFindable == Spec => []WaiterFindable
<1>1. Inv => WaiterFindable
  BY DEF Inv
<1> QED
  BY <1>1, AlwaysInv, PTL
-----------------------------------------------------------------------------
Waits == {e \in Ends : Alone(e)}
Pairs == {{e, partner[e]} : e \in {f \in Ends : partner[f] # NoEnd}}

(* In the abstract meeting, exactly the ends with a partner are paired.    *)
LEMMA PairedMeansPartner ==
  ASSUME Inv, NEW e \in Ends, partner[e] = NoEnd
  PROVE  ~M!Paired(e)
<1> SUFFICES ASSUME NEW f \in Ends, partner[f] # NoEnd, e \in {f, partner[f]}
             PROVE  FALSE
  BY DEF M!Paired
<1> QED
  BY EndsAssumption DEF Inv, PartnerInv

(* Every step of the relay is a step of the meeting, or none.              *)
LEMMA MeetingStep ==
  Inv /\ [Next]_vars => [M!MeetingNext]_<<Waits, Pairs>>
<1> SUFFICES ASSUME Inv, [Next]_vars PROVE [M!MeetingNext]_<<Waits, Pairs>>
  OBVIOUS
<1>0. TypeOK
  BY DEF Inv
<1>1. ASSUME NEW e \in Ends, Meet(e) PROVE M!MeetingNext
  <2> SUFFICES ASSUME NEW g \in Ends, g = relayWaiting[ID(e)] PROVE M!MeetingNext
    BY <1>1, MeetFacts
  <2>1. /\ g \in Ends /\ g # e /\ Alone(g)
        /\ SetupOf(g) = SetupOf(e) /\ partner[e] = NoEnd
    BY <1>1, MeetFacts
  <2>2. /\ pc[e] = "checked" /\ pc' = [pc EXCEPT ![e] = "met"]
        /\ partner' = [partner EXCEPT ![e] = g, ![g] = e]
    BY <1>1 DEF Meet
  <2>3. Waits' = Waits \ {g}
    BY <2>1, <2>2, <1>0, EndsAssumption DEF Waits, Alone, TypeOK
  <2>4. /\ partner'[e] = g /\ partner'[g] = e
        /\ \A f \in Ends : f # e /\ f # g => partner'[f] = partner[f]
        /\ partner[e] = NoEnd /\ partner[g] = NoEnd
    BY <2>1, <2>2, <1>0 DEF Alone, TypeOK
  <2>5. Pairs' \subseteq Pairs \cup {{e, g}}
    BY <2>1, <2>4 DEF Pairs
  <2>6. Pairs \cup {{e, g}} \subseteq Pairs'
    <3>1. {e, g} \in Pairs'
      BY <2>1, <2>4, EndsAssumption DEF Pairs
    <3>2. Pairs \subseteq Pairs'
      BY <2>4 DEF Pairs
    <3> QED
      BY <3>1, <3>2
  <2>7. M!Join(e, g)
    BY <2>1, <2>3, <2>5, <2>6, PairedMeansPartner
    DEF M!Join, M!WaitersAt, Waits, Pairs
  <2> QED
    BY <2>7 DEF M!MeetingNext
<1>2. ASSUME NEW e \in Ends, Wait(e) PROVE M!MeetingNext
  <2>1. /\ partner' = partner /\ pc[e] = "checked"
        /\ relayWaiting[ID(e)] = NoEnd /\ pc' = [pc EXCEPT ![e] = "waiting"]
    BY <1>2 DEF Wait, SomeoneWaits
  <2>2. partner[e] = NoEnd
    BY <2>1 DEF Inv, PartnerInv
  <2>3. \A f \in Ends : ~(Alone(f) /\ SetupOf(f) = SetupOf(e))
    BY <2>1, WaiterFacts, EndsAssumption
  <2>4. Waits' = Waits \cup {e} /\ Pairs' = Pairs
    BY <2>1, <2>2, <1>0 DEF Waits, Pairs, Alone, TypeOK
  <2>5. M!Come(e)
    BY <2>2, <2>3, <2>4, PairedMeansPartner DEF M!Come, M!WaitersAt, Waits, Pairs
  <2> QED
    BY <2>5 DEF M!MeetingNext
<1>3. ASSUME NEW e \in Ends, WaiterGone(e)
      PROVE  [M!MeetingNext]_<<Waits, Pairs>>
  <2>1. partner' = partner /\ pc[e] = "waiting"
        /\ pc' = [pc EXCEPT ![e] = "returned"]
    BY <1>3 DEF WaiterGone
  <2>2. Waits' = Waits \ {e} /\ Pairs' = Pairs
    BY <2>1, <1>0 DEF Waits, Pairs, Alone, TypeOK
  <2>3. CASE Alone(e)
    <3>1. M!Leave(e)
      BY <2>2, <2>3 DEF M!Leave, Waits, Pairs
    <3> QED
      BY <3>1 DEF M!MeetingNext
  <2>4. CASE ~Alone(e)
    BY <2>2, <2>4 DEF Waits
  <2> QED
    BY <2>3, <2>4
<1>4. ASSUME NEW e \in Ends, RelayRequest(e) \/ CloseReady(e) \/ WaiterReady(e)
      PROVE  UNCHANGED <<Waits, Pairs>>
  <2>1. partner' = partner /\ \A f \in Ends : Alone(f)' = Alone(f)
    BY <1>4, <1>0 DEF RelayRequest, CloseReady, WaiterReady, Alone, TypeOK, Inv,
       PartnerInv
  <2> QED
    BY <2>1 DEF Waits, Pairs
<1>5. CASE UNCHANGED <<pc, partner>>
  BY <1>5 DEF Waits, Pairs, Alone
<1> QED
  BY <1>1, <1>2, <1>3, <1>4, <1>5 DEF Next, Handler, Copier, JoinsReturn,
     InitRelay, Receive, Send, Disconnect, ForgetConn, HangUp, Close, vars

(* The relay implements the meeting place: whatever the order of arrivals, *)
(* departures and failures, Server.Relay joins the two ends of one set-up  *)
(* and no others, takes only an end that really waits, and never an end    *)
(* that is relayed already.                                                *)
THEOREM RelayImplementsMeeting == Spec => ImplementsMeeting
<1>1. Init => M!MeetingInit
  BY DEF Init, M!MeetingInit, Alone
<1>2. Inv /\ [Next]_vars => [M!MeetingNext]_<<{e \in Ends : Alone(e)},
        {{e, partner[e]} : e \in {f \in Ends : partner[f] # NoEnd}}>>
  BY MeetingStep DEF Waits, Pairs
<1> QED
  BY <1>1, <1>2, AlwaysInv, PTL DEF Spec, ImplementsMeeting, M!MeetingSpec
-----------------------------------------------------------------------------
(* The client.                                                             *)
ClientTypes ==
  /\ role \in {"hoster", "joiner"}
  /\ call \in {"none", "response", "body", "select", "serving", "waitConn", "waitError",
               "closing"}
  /\ link \in {"up", "closed", "lost"}
  /\ ctrl \in {"new", "accepted", "refused", "badStatus", "finished"}
  /\ readEnd \in {"no", "cancelled", "closed"}
  /\ agent \in {"off", "read", "handle", "deliver", "answer", "returned"}
  /\ agentErr \in {"nil", "error"}
  /\ result \in {"none", "refused", "error", "conn", "nil"}

(* A joiner never ends its own stream the way Close of a Hoster does, so   *)
(* that its agent returns without an error only after the Joiner was       *)
(* closed.                                                                 *)
JoinerInv ==
  role = "joiner" =>
    /\ readEnd # "closed"
    /\ call \notin {"serving", "closing"}
    /\ agent = "returned" /\ agentErr = "nil" => link = "closed"

ClientInv == ClientTypes /\ JoinerInv /\ CallTells

(* A read of the control stream ends with one of five errors: the server's *)
(* refusal only if it refused, the local close only if the client closed.  *)
LEMMA ReadErrorsMean ==
  ASSUME ClientTypes, NEW e \in ReadErrors
  PROVE  /\ e = "refused" => ctrl = "refused"
         /\ e = "closed" => link = "closed" \/ readEnd = "closed"
  BY DEF ClientTypes, ReadErrors

LEMMA ClientInvStep == ClientInv /\ [ClientNext]_clientState => ClientInv'
<1> SUFFICES ASSUME ClientInv, [ClientNext]_clientState PROVE ClientInv'
  OBVIOUS
<1>0. ClientTypes /\ JoinerInv /\ CallTells
  BY DEF ClientInv
<1> USE <1>0 DEF ClientInv, ClientTypes, JoinerInv, CallTells, callVars, streamVars,
                 agentVars
<1>1. CASE RegisterCall
  BY <1>1 DEF RegisterCall, FreshStream
<1>2. CASE ServerResponds
  BY <1>2 DEF ServerResponds
<1>3. ASSUME NEW e \in ReadErrors \cup ({ctrl} \cap {"badStatus"}), RegisterFails(e)
      PROVE  ClientInv'
  <2>1. e = "refused" => ctrl = "refused"
    BY ReadErrorsMean
  <2> QED
    BY <1>3, <2>1 DEF RegisterFails
<1>4. CASE ReadResponse
  BY <1>3, <1>4 DEF ReadResponse
<1>5. CASE ReadBody
  BY <1>3, <1>5 DEF ReadBody
<1>6. CASE ContextEnds \/ CancelStream
  BY <1>6 DEF ContextEnds, CancelStream
<1>7. CASE AgentReads \/ AgentHandles \/ AgentDelivers
  BY <1>7 DEF AgentReads, AgentHandles, AgentDelivers
<1>8. CASE AgentReadFails
  <2>1. PICK e \in ReadErrors : agentErr' = agentResult(e)
    BY <1>8 DEF AgentReadFails
  <2>2. e = "closed" => link = "closed" \/ readEnd = "closed"
    BY ReadErrorsMean
  <2> QED
    BY <1>8, <2>1, <2>2 DEF AgentReadFails, agentResult
<1>9. CASE AgentAnswers
  BY <1>9 DEF AgentAnswers, agentResult
<1>10. CASE JoinTakesConn \/ JoinGivesUp
  BY <1>10 DEF JoinTakesConn, JoinGivesUp
<1>11. CASE JoinReturns \/ HosterCloses
  BY <1>11 DEF JoinReturns, HosterCloses
<1>12. CASE HosterAccepts \/ CloseJoiner
  BY <1>12 DEF HosterAccepts, CloseJoiner
<1>13. CASE CloseHoster
  BY <1>13 DEF CloseHoster
<1>14. CASE ServerCommands \/ ServerFinishes \/ LinkLost
  BY <1>14 DEF ServerCommands, ServerFinishes, LinkLost
<1>15. CASE UNCHANGED clientState
  BY <1>15 DEF clientState
<1> QED
  BY <1>1, <1>2, <1>4, <1>5, <1>6, <1>7, <1>8, <1>9, <1>10, <1>11, <1>12, <1>13, <1>14,
     <1>15
     DEF ClientNext, CallSteps, Serve

(* What a call of the client returns is true: Join returns without a       *)
(* connection and without an error only once the Joiner is closed, however *)
(* the agent, the context and the server race, and a refusal is the        *)
(* server's.                                                               *)
THEOREM CallsTellTheTruth == ClientSpec => []CallTells
<1>1. ClientInit => ClientInv
  BY DEF ClientInit, ClientInv, ClientTypes, JoinerInv, CallTells
<1>2. ClientInv => CallTells
  BY DEF ClientInv
<1> QED
  BY <1>1, <1>2, ClientInvStep, PTL DEF ClientSpec
=============================================================================

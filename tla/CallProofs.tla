---------------------------- MODULE CallProofs ----------------------------
(***************************************************************************)
(* TLAPS proofs about what belongs to a single call: the ports of its      *)
(* media engines, for any number of engines, any range of ports and any    *)
(* foreign sockets, when the allocator has the flags its only caller       *)
(* switch_rtp_request_port gives it (even ports, tested or not), and any   *)
(* ports brought along by recovered calls; and the state machine of its    *)
(* channel, for any number of threads, any set of wanted states, any queue *)
(* length and any number of rounds in CS_NEW.                              *)
(* PortAllocator and ChannelState have no name in common: each theorem is  *)
(* about one of the two specifications.                                    *)
(***************************************************************************)
EXTENDS PortAllocator, ChannelState, FiniteSetTheorems, TLAPS

(* Zenon proves the leaves that do not name the SMT solver. *)
USE ZenonT(60)

-----------------------------------------------------------------------------
(* The ports *)

EvenPorts == "SPF_EVEN" \in Flags /\ "SPF_ODD" \notin Flags

Ports == {PortOf(i) : i \in Slots}

Used == {i \in Slots : track[i] > 0}

(* The request that walks through the table holds port_lock. *)
LockInv == \A e \in Engines : place[e] \in {"pick", "walk"} => port_lock = e

(* A slot in use has a holder that is not about to replace its port. *)
LeakInv ==
  \A i \in Slots : track[i] > 0 =>
    \E e \in Engines : place[e] \in {"idle", "closed"} /\ local_sdp_port[e] = PortOf(i)

PortInv == PortTypeOK /\ LockInv /\ UsedIsCounted /\ LeakInv /\ HeldIsExclusive

(* Halves of even and of odd numbers. *)
LEMMA Halves ==
  ASSUME NEW n \in Int
  PROVE  /\ n \div 2 \in Int /\ n % 2 \in {0, 1}
         /\ n = 2 * (n \div 2) + (n % 2)
BY SMT

(* Twice a number is even, and half of it is the number. *)
LEMMA EvenNumber ==
  ASSUME NEW m \in Int
  PROVE  (2 * m) % 2 = 0 /\ (2 * m) \div 2 = m
BY SMT

(* The rounded range is even at both ends, so that track_len is exact. *)
LEMMA RangeIsEven ==
  ASSUME EvenPorts
  PROVE  /\ ~(even /\ odd)
         /\ start \in START_PORT..START_PORT + 1 /\ start % 2 = 0
         /\ end \in END_PORT - 1..END_PORT /\ end % 2 = 0
         /\ 2 * track_len = end - start + 2
         /\ track_len \in Nat
<1> DEFINE a == START_PORT \div 2
           r == START_PORT % 2
           b == END_PORT \div 2
           q == END_PORT % 2
<1>1. even /\ ~odd
  BY DEF EvenPorts, even, odd
<1>2. start = START_PORT + r /\ end = END_PORT - q
  BY <1>1 DEF start, end
<1>3. track_len = (end - start + 2) \div 2
  BY <1>1 DEF track_len
<1>4. START_PORT \in Int /\ END_PORT \in Int /\ START_PORT <= END_PORT
  BY PortAssumption, SMTT(60)
<1>5. a \in Int /\ r \in {0, 1} /\ START_PORT = 2 * a + r
  BY <1>4, Halves
<1>6. b \in Int /\ q \in {0, 1} /\ END_PORT = 2 * b + q
  BY <1>4, Halves
<1> HIDE DEF a, r, b, q
<1>7. start = 2 * (a + r) /\ a + r \in Int
  BY <1>2, <1>5, SMTT(60)
<1>8. end = 2 * b
  BY <1>2, <1>6, SMTT(60)
<1>9. end - start + 2 = 2 * (b - (a + r) + 1) /\ b - (a + r) + 1 \in Nat
  BY <1>4, <1>5, <1>6, <1>7, <1>8, SMTT(60)
<1>10. track_len = b - (a + r) + 1
  BY <1>3, <1>9, EvenNumber, SMTT(60)
<1>11. start % 2 = 0 /\ end % 2 = 0
  BY <1>6, <1>7, <1>8, EvenNumber
<1>12. start \in START_PORT..START_PORT + 1 /\ end \in END_PORT - 1..END_PORT
  BY <1>2, <1>4, <1>5, <1>6, SMTT(60)
<1> QED BY <1>1, <1>9, <1>10, <1>11, <1>12

(* PortOf and SlotOf are inverse to each other, and the ports lie in the     *)
(* range: no number wraps around.                                            *)
LEMMA PortLemma ==
  ASSUME EvenPorts, NEW i \in Slots
  PROVE  /\ PortOf(i) \in START_PORT..END_PORT
         /\ PortOf(i) % 2 = 0
         /\ PortOf(i) >= start /\ PortOf(i) # 0
         /\ SlotOf(PortOf(i)) = i
<1>1. i \in Nat /\ i < track_len
  BY RangeIsEven, SMTT(60) DEF Slots
<1>2. /\ start \in Nat /\ end \in Nat /\ start >= START_PORT /\ end <= END_PORT
      /\ start % 2 = 0
  BY RangeIsEven, PortAssumption, SMTT(60)
<1>3. 2 * (start \div 2) = start /\ start \div 2 \in Int
  BY <1>2, Halves, SMTT(60)
<1>4. (i + start \div 2) * 2 = 2 * i + start
  BY <1>1, <1>2, <1>3, SMTT(60)
<1>5. 2 * i + start <= end
  BY <1>1, <1>2, RangeIsEven, SMTT(60)
<1>6. PortOf(i) = 2 * i + start
  <2>1. PortOf(i) = (2 * i + start) % PortWrap
    BY <1>4, RangeIsEven DEF PortOf
  <2>2. 2 * i + start \in 0..PortWrap - 1
    BY <1>1, <1>2, <1>5, PortAssumption, SMTT(60)
  <2>3. \A n \in 0..PortWrap - 1 : n % PortWrap = n
    BY PortAssumption, SMT
  <2> QED BY <2>1, <2>2, <2>3
<1>7. SlotOf(PortOf(i)) = i
  <2>1. PortOf(i) - start = 2 * i
    BY <1>1, <1>2, <1>6, SMTT(60)
  <2>2. SlotOf(PortOf(i)) = (2 * i) \div 2
    BY <2>1, RangeIsEven DEF SlotOf
  <2> QED BY <1>1, <2>2, EvenNumber, SMTT(60)
<1>8. PortOf(i) % 2 = 0
  <2>1. PortOf(i) = 2 * (i + start \div 2) /\ i + start \div 2 \in Int
    BY <1>1, <1>2, <1>3, <1>6, SMTT(60)
  <2> QED BY <2>1, EvenNumber
<1>9. PortOf(i) \in START_PORT..END_PORT /\ PortOf(i) >= start /\ PortOf(i) # 0
  BY <1>1, <1>2, <1>5, <1>6, PortAssumption, SMTT(60)
<1> QED BY <1>7, <1>8, <1>9

(* The slots are finitely many. *)
LEMMA UsedIsFinite == ASSUME EvenPorts PROVE IsFiniteSet(Used)
<1>1. IsFiniteSet(Slots)
  BY RangeIsEven, FS_Interval, SMTT(60) DEF Slots
<1> QED BY <1>1, FS_Subset DEF Used

(* What switch_rtp_release_port does to the table for a port some engine     *)
(* has, whoever has it marked: the slot is not in use afterwards, the other  *)
(* slots are left alone and the count is right.                              *)
LEMMA FreePort ==
  ASSUME EvenPorts, PortTypeOK, UsedIsCounted, NEW p \in {0} \cup Ports, free_port(p)
  PROVE  /\ track' \in [Slots -> -4..1] /\ track_used' \in Int
         /\ UsedIsCounted'
         /\ p # 0 => SlotOf(p) \in Slots /\ track'[SlotOf(p)] <= 0
         /\ \A i \in Slots : (p = 0 \/ i # SlotOf(p)) => track'[i] = track[i]
<1>1. p # 0 => p \in Ports /\ SlotOf(p) \in Slots /\ p >= start
  BY PortLemma DEF Ports
<1>2. CASE p # 0 /\ track[SlotOf(p)] > 0
  <2>1. /\ track' = [track EXCEPT ![SlotOf(p)] = -4]
        /\ track_used' = track_used - 1
    BY <1>1, <1>2 DEF free_port
  <2>2. track' \in [Slots -> -4..1] /\ track'[SlotOf(p)] = -4
    BY <1>1, <1>2, <2>1, SMTT(60) DEF PortTypeOK
  <2>3. Used' = Used \ {SlotOf(p)} /\ SlotOf(p) \in Used
    BY <1>1, <1>2, <2>1, SMTT(60) DEF PortTypeOK, Used
  <2>4. Cardinality(Used') = Cardinality(Used) - 1
    BY <2>3, UsedIsFinite, FS_RemoveElement
  <2> QED BY <1>1, <1>2, <2>1, <2>2, <2>4, SMTT(60) DEF PortTypeOK, UsedIsCounted, Used
<1>3. CASE ~(p # 0 /\ track[SlotOf(p)] > 0)
  <2>1. track' = track /\ track_used' = track_used
    BY <1>3 DEF free_port, alloc
  <2> QED BY <1>1, <1>3, <2>1, SMTT(60) DEF PortTypeOK, UsedIsCounted
<1> QED BY <1>2, <1>3

(* An engine's port is none or one of the table's. *)
LEMMA PortType ==
  ASSUME PortTypeOK, NEW e \in Engines
  PROVE  local_sdp_port[e] \in {0} \cup Ports
BY DEF PortTypeOK, Ports

(* Engines with different ports have different slots. *)
LEMMA SlotsDiffer ==
  ASSUME EvenPorts, NEW p \in Ports, NEW q \in Ports, p # q
  PROVE  SlotOf(p) # SlotOf(q)
BY PortLemma DEF Ports

(* The initial state satisfies the invariant. *)
LEMMA InitInv == ASSUME EvenPorts, PortInit PROVE PortInv
<1>1. PortTypeOK
  <2>1. track \in [Slots -> -4..1]
    BY SMTT(60) DEF PortInit
  <2>2. tries \in 0..track_len
    BY RangeIsEven, SMTT(60) DEF PortInit
  <2>3. index \in Nat /\ track_used \in Int
    BY SMTT(60) DEF PortInit
  <2>4. /\ adv_sdp_port \in [Engines -> BOOLEAN] /\ rtp_session \in [Engines -> BOOLEAN]
        /\ up \in [Engines -> BOOLEAN] /\ loose \in BOOLEAN
    BY DEF PortInit
  <2>5. local_sdp_port \in [Engines -> {0} \cup {PortOf(i) : i \in Slots}]
    BY DEF PortInit
  <2> QED BY <2>1, <2>2, <2>3, <2>4, <2>5 DEF PortInit, PortTypeOK
<1>2. Used = {}
  BY SMTT(60) DEF PortInit, Used
<1>3. UsedIsCounted
  BY <1>2, FS_EmptySet DEF PortInit, UsedIsCounted, Used
<1>4. LockInv /\ LeakInv /\ HeldIsExclusive
  BY SMTT(60) DEF PortInit, LockInv, LeakInv, HeldIsExclusive
<1> QED BY <1>1, <1>3, <1>4 DEF PortInv

(* A step that releases the port of an engine e and leaves the requests      *)
(* alone preserves the invariant if e then has no port, is about to replace  *)
(* it, or has failed.                                                        *)
LEMMA ReleaseStep ==
  ASSUME EvenPorts, PortInv, NEW e \in Engines, place[e] \in {"idle", "closed"},
         free_port(local_sdp_port[e]),
         PortTypeOK', LockInv',
         \A f \in Engines \ {e} : place'[f] = place[f] /\ local_sdp_port'[f] = local_sdp_port[f],
         ~loose' => ~loose /\ (place'[e] \notin {"idle", "closed"} \/ local_sdp_port'[e] = 0)
  PROVE  PortInv'
<1> DEFINE p == local_sdp_port[e]
<1>0. PortTypeOK /\ UsedIsCounted /\ p \in {0} \cup Ports
  BY PortType DEF PortInv
<1>1. /\ UsedIsCounted'
      /\ p # 0 => SlotOf(p) \in Slots /\ track'[SlotOf(p)] <= 0
      /\ \A i \in Slots : (p = 0 \/ i # SlotOf(p)) => track'[i] = track[i]
  BY <1>0, FreePort
<1>2. LeakInv'
  <2> SUFFICES ASSUME NEW i \in Slots, track'[i] > 0
               PROVE  \E f \in Engines : place'[f] \in {"idle", "closed"} /\ local_sdp_port'[f] = PortOf(i)
    BY DEF LeakInv
  <2>1. track'[i] \in Int
    BY SMTT(60) DEF PortTypeOK
  <2>2. p = 0 \/ i # SlotOf(p)
    BY <1>1, <2>1, SMTT(60)
  <2>3. PICK f \in Engines : place[f] \in {"idle", "closed"} /\ local_sdp_port[f] = PortOf(i)
    BY <1>1, <2>2 DEF PortInv, LeakInv
  <2>4. f # e
    BY <2>2, <2>3, PortLemma
  <2> QED BY <2>3, <2>4
<1>3. HeldIsExclusive'
  <2> SUFFICES ASSUME ~loose', NEW f \in Engines,
                      local_sdp_port'[f] # 0, place'[f] \in {"idle", "closed"}
               PROVE  /\ track'[SlotOf(local_sdp_port'[f])] = 1
                      /\ \A g \in Engines \ {f} :
                           place'[g] \in {"idle", "closed"} => local_sdp_port'[g] # local_sdp_port'[f]
    BY DEF HeldIsExclusive
  <2>1. f # e /\ ~loose
    OBVIOUS
  <2>2. place[f] \in {"idle", "closed"} /\ local_sdp_port[f] # 0 /\ local_sdp_port'[f] = local_sdp_port[f]
    BY <2>1
  <2>3. /\ track[SlotOf(local_sdp_port[f])] = 1
        /\ \A g \in Engines \ {f} : place[g] \in {"idle", "closed"} => local_sdp_port[g] # local_sdp_port[f]
    BY <2>1, <2>2 DEF PortInv, HeldIsExclusive
  <2>4. local_sdp_port[f] \in Ports /\ SlotOf(local_sdp_port[f]) \in Slots
    BY <1>0, <2>2, PortType, PortLemma DEF Ports
  <2>5. p = 0 \/ SlotOf(local_sdp_port[f]) # SlotOf(p)
    BY <1>0, <2>1, <2>3, <2>4, SlotsDiffer
  <2>6. track'[SlotOf(local_sdp_port'[f])] = 1
    BY <1>1, <2>2, <2>3, <2>4, <2>5
  <2>7. ASSUME NEW g \in Engines \ {f}, place'[g] \in {"idle", "closed"}
        PROVE  local_sdp_port'[g] # local_sdp_port'[f]
    BY <2>1, <2>2, <2>3, <2>7
  <2> QED BY <2>6, <2>7
<1> QED BY <1>1, <1>2, <1>3 DEF PortInv

(* A step that changes no slot from or to "in use" and no engine's port      *)
(* preserves the invariant if no engine becomes idle or stops being idle.    *)
LEMMA QuietStep ==
  ASSUME EvenPorts, PortInv, PortTypeOK', LockInv',
         track_used' = track_used,
         \A i \in Slots : (track'[i] > 0 <=> track[i] > 0),
         local_sdp_port' = local_sdp_port, loose' = loose,
         \A f \in Engines : place'[f] \in {"idle", "closed"} <=> place[f] \in {"idle", "closed"}
  PROVE  PortInv'
<1>1. UsedIsCounted'
  <2>1. Used' = Used
    BY DEF Used
  <2> QED BY <2>1 DEF PortInv, UsedIsCounted, Used
<1>2. LeakInv'
  BY DEF PortInv, LeakInv
<1>3. HeldIsExclusive'
  <2> SUFFICES ASSUME ~loose, NEW f \in Engines,
                      local_sdp_port[f] # 0, place[f] \in {"idle", "closed"}
               PROVE  /\ track'[SlotOf(local_sdp_port[f])] = 1
                      /\ \A g \in Engines \ {f} :
                           place[g] \in {"idle", "closed"} => local_sdp_port[g] # local_sdp_port[f]
    BY DEF HeldIsExclusive
  <2>1. /\ track[SlotOf(local_sdp_port[f])] = 1
        /\ \A g \in Engines \ {f} : place[g] \in {"idle", "closed"} => local_sdp_port[g] # local_sdp_port[f]
    BY DEF PortInv, HeldIsExclusive
  <2>2. SlotOf(local_sdp_port[f]) \in Slots
    BY PortType, PortLemma DEF Ports, PortInv
  <2>3. track'[SlotOf(local_sdp_port[f])] > 0 /\ track'[SlotOf(local_sdp_port[f])] \in -4..1
    BY <2>1, <2>2, SMTT(60) DEF PortTypeOK
  <2> QED BY <2>1, <2>3, SMTT(60)
<1> QED BY <1>1, <1>2, <1>3 DEF PortInv

(* Every step of every engine preserves the invariant. *)
LEMMA NextInv == ASSUME EvenPorts, PortInv, [PortNext]_portVars PROVE PortInv'
<1>0. PortTypeOK /\ LockInv /\ UsedIsCounted /\ LeakInv /\ HeldIsExclusive
  BY DEF PortInv
<1>1. ASSUME NEW e \in Engines, NEW force \in BOOLEAN, ChoosePort(e, force)
      PROVE  PortInv'
  <2>1. /\ place[e] = "idle" /\ free_port(local_sdp_port[e])
        /\ place' = [place EXCEPT ![e] = "request"]
        /\ UNCHANGED <<port_lock, index, tries, local_sdp_port, adv_sdp_port, rtp_session, up, loose>>
    BY <1>1 DEF ChoosePort, locals, engine
  <2>2. PortTypeOK'
    BY <1>0, <2>1, FreePort, PortType DEF PortTypeOK
  <2>3. LockInv'
    BY <1>0, <2>1 DEF PortTypeOK, LockInv
  <2>4. place'[e] = "request" /\ \A f \in Engines \ {e} : place'[f] = place[f]
    BY <1>0, <2>1 DEF PortTypeOK
  <2> QED BY <2>1, <2>2, <2>3, <2>4, ReleaseStep
<1>2. ASSUME NEW e \in Engines, RequestPort(e)
      PROVE  PortInv'
  <2>1. /\ place[e] = "request" /\ port_lock = NoEngine /\ port_lock' = e
        /\ place' = [place EXCEPT ![e] = "pick"]
        /\ UNCHANGED <<track, track_used, index, tries, local_sdp_port, adv_sdp_port, rtp_session, up, loose>>
    BY <1>2 DEF RequestPort, alloc, locals, engine
  <2>2. PortTypeOK'
    BY <1>0, <2>1 DEF PortTypeOK
  <2>3. LockInv'
    BY <1>0, <2>1, PortAssumption DEF PortTypeOK, LockInv
  <2>4. \A f \in Engines : place'[f] \in {"idle", "closed"} <=> place[f] \in {"idle", "closed"}
    BY <1>0, <2>1 DEF PortTypeOK
  <2> QED BY <2>1, <2>2, <2>3, <2>4, QuietStep
<1>3. ASSUME NEW e \in Engines, PickSlot(e)
      PROVE  PortInv'
  <2>1. /\ place[e] = "pick" /\ index' \in Slots /\ tries' = 0
        /\ place' = [place EXCEPT ![e] = "walk"]
        /\ UNCHANGED <<track, track_used, port_lock, local_sdp_port, adv_sdp_port, rtp_session, up, loose>>
    BY <1>3 DEF PickSlot, alloc, engine
  <2>2. PortTypeOK'
    BY <1>0, <2>1, RangeIsEven, SMTT(60) DEF PortTypeOK, Slots
  <2>3. LockInv'
    BY <1>0, <2>1 DEF PortTypeOK, LockInv
  <2>4. \A f \in Engines : place'[f] \in {"idle", "closed"} <=> place[f] \in {"idle", "closed"}
    BY <1>0, <2>1 DEF PortTypeOK
  <2> QED BY <2>1, <2>2, <2>3, <2>4, QuietStep
<1>4. ASSUME NEW e \in Engines, WalkedAll(e)
      PROVE  PortInv'
  <2>1. /\ place[e] = "walk" /\ index' = 0 /\ tries' = 0
        /\ place' = [place EXCEPT ![e] = "pick"]
        /\ UNCHANGED <<track, track_used, port_lock, local_sdp_port, adv_sdp_port, rtp_session, up, loose>>
    BY <1>4 DEF WalkedAll, alloc, engine
  <2>2. LockInv' /\ \A f \in Engines : place'[f] # "walk"
    BY <1>0, <2>1 DEF PortTypeOK, LockInv
  <2>3. PortTypeOK'
    BY <1>0, <2>1, <2>2, RangeIsEven, SMTT(60) DEF PortTypeOK
  <2>4. \A f \in Engines : place'[f] \in {"idle", "closed"} <=> place[f] \in {"idle", "closed"}
    BY <1>0, <2>1 DEF PortTypeOK
  <2> QED BY <2>1, <2>2, <2>3, <2>4, QuietStep
<1>5. ASSUME NEW e \in Engines, WalkUp(e)
      PROVE  PortInv'
  <2>1. /\ place[e] = "walk" /\ track[index] # 0 /\ tries < track_len /\ tries' = tries + 1
        /\ track' = [track EXCEPT ![index] = IF track[index] < 0 THEN track[index] + 1 ELSE track[index]]
        /\ index' = IF index + 1 >= track_len THEN 0 ELSE index + 1
        /\ UNCHANGED <<track_used, port_lock, place, local_sdp_port, adv_sdp_port, rtp_session, up, loose>>
    BY <1>5 DEF WalkUp, engine
  <2>2. index \in Slots /\ index \in Nat /\ tries \in 0..track_len /\ track_len \in Nat
    BY <1>0, <2>1, RangeIsEven DEF PortTypeOK
  <2>3. index' \in Slots /\ index' \in Nat /\ tries' \in 0..track_len
    BY <2>1, <2>2, SMTT(60) DEF Slots
  <2>4. track' \in [Slots -> -4..1] /\ \A i \in Slots : (track'[i] > 0 <=> track[i] > 0)
    BY <1>0, <2>1, <2>2, SMTT(60) DEF PortTypeOK
  <2>5. PortTypeOK' /\ LockInv'
    BY <1>0, <2>1, <2>3, <2>4 DEF PortTypeOK, LockInv
  <2> QED BY <2>1, <2>4, <2>5, QuietStep
<1>6. ASSUME NEW e \in Engines, SetAside(e)
      PROVE  PortInv'
  <2>1. /\ place[e] = "walk" /\ track[index] = 0 /\ index' = 0 /\ tries' = 0
        /\ track' = [track EXCEPT ![index] = -4]
        /\ place' = [place EXCEPT ![e] = "pick"]
        /\ UNCHANGED <<track_used, port_lock, local_sdp_port, adv_sdp_port, rtp_session, up, loose>>
    BY <1>6 DEF SetAside, engine
  <2>2. LockInv' /\ \A f \in Engines : place'[f] # "walk"
    BY <1>0, <2>1 DEF PortTypeOK, LockInv
  <2>3. track' \in [Slots -> -4..1] /\ \A i \in Slots : (track'[i] > 0 <=> track[i] > 0)
    BY <1>0, <2>1, SMTT(60) DEF PortTypeOK
  <2>4. PortTypeOK'
    BY <1>0, <2>1, <2>2, <2>3, RangeIsEven, SMTT(60) DEF PortTypeOK
  <2>5. \A f \in Engines : place'[f] \in {"idle", "closed"} <=> place[f] \in {"idle", "closed"}
    BY <1>0, <2>1 DEF PortTypeOK
  <2> QED BY <2>1, <2>2, <2>3, <2>4, <2>5, QuietStep
<1>7. ASSUME NEW e \in Engines, NoPort(e)
      PROVE  PortInv'
  <2>1. /\ place[e] = "pick" /\ port_lock' = NoEngine /\ index' = 0 /\ tries' = 0
        /\ local_sdp_port' = [local_sdp_port EXCEPT ![e] = 0]
        /\ adv_sdp_port' = [adv_sdp_port EXCEPT ![e] = adv_sdp_port[e]]
        /\ place' = [place EXCEPT ![e] = "idle"]
        /\ UNCHANGED <<track, track_used, rtp_session, up, loose>>
    BY <1>7 DEF NoPort, Return, alloc
  <2>2. LockInv' /\ \A f \in Engines : place'[f] \notin {"pick", "walk"}
    BY <1>0, <2>1 DEF PortTypeOK, LockInv
  <2>3. adv_sdp_port' \in [Engines -> BOOLEAN]
    BY <1>0, <2>1 DEF PortTypeOK
  <2>4. PortTypeOK'
    BY <1>0, <2>1, <2>2, <2>3, RangeIsEven, SMTT(60) DEF PortTypeOK
  <2>5. /\ place'[e] \in {"idle", "closed"} /\ local_sdp_port'[e] = 0
        /\ \A f \in Engines \ {e} : place'[f] = place[f] /\ local_sdp_port'[f] = local_sdp_port[f]
    BY <1>0, <2>1 DEF PortTypeOK
  <2>6. UsedIsCounted' /\ LeakInv'
    BY <1>0, <2>1, <2>5 DEF UsedIsCounted, LeakInv
  <2>7. HeldIsExclusive'
    BY <1>0, <2>1, <2>5, SMTT(60) DEF HeldIsExclusive
  <2> QED BY <2>2, <2>4, <2>6, <2>7 DEF PortInv
<1>8. ASSUME NEW e \in Engines, TakePort(e)
      PROVE  PortInv'
  <2>1. PICK adv \in {TRUE, adv_sdp_port[e]} :
          /\ place[e] = "walk" /\ track[index] = 0
          /\ track' = [track EXCEPT ![index] = 1] /\ track_used' = track_used + 1
          /\ port_lock' = NoEngine /\ index' = 0 /\ tries' = 0
          /\ local_sdp_port' = [local_sdp_port EXCEPT ![e] = PortOf(index)]
          /\ adv_sdp_port' = [adv_sdp_port EXCEPT ![e] = adv]
          /\ place' = [place EXCEPT ![e] = "idle"]
          /\ UNCHANGED <<rtp_session, up, loose>>
    BY <1>8 DEF TakePort, Return
  <2>2. LockInv' /\ \A f \in Engines : place'[f] \notin {"pick", "walk"}
    BY <1>0, <2>1 DEF PortTypeOK, LockInv
  <2>3. adv_sdp_port' \in [Engines -> BOOLEAN]
    BY <1>0, <2>1 DEF PortTypeOK
  <2>4. index \in Slots /\ PortOf(index) \in Ports /\ PortOf(index) # 0 /\ SlotOf(PortOf(index)) = index
    BY <1>0, <2>1, PortLemma DEF PortTypeOK, Ports
  <2>5. PortTypeOK'
    BY <1>0, <2>1, <2>2, <2>3, <2>4, RangeIsEven, SMTT(60) DEF PortTypeOK, Ports
  <2>6. /\ place'[e] \in {"idle", "closed"} /\ local_sdp_port'[e] = PortOf(index)
        /\ \A f \in Engines \ {e} : place'[f] = place[f] /\ local_sdp_port'[f] = local_sdp_port[f]
        /\ track'[index] = 1 /\ \A i \in Slots \ {index} : track'[i] = track[i]
    BY <1>0, <2>1, <2>4 DEF PortTypeOK
  <2>7. UsedIsCounted'
    <3>1. Used' = Used \cup {index} /\ index \notin Used
      BY <2>1, <2>4, <2>6, SMTT(60) DEF Used
    <3>2. Cardinality(Used') = Cardinality(Used) + 1
      BY <3>1, UsedIsFinite, FS_AddElement
    <3> QED BY <1>0, <2>1, <3>2 DEF UsedIsCounted, Used
  <2>8. LeakInv'
    <3> SUFFICES ASSUME NEW i \in Slots, track'[i] > 0
                 PROVE  \E f \in Engines : place'[f] \in {"idle", "closed"} /\ local_sdp_port'[f] = PortOf(i)
      BY DEF LeakInv
    <3>1. CASE i = index
      BY <2>6, <3>1
    <3>2. CASE i # index
      <4>1. PICK f \in Engines : place[f] \in {"idle", "closed"} /\ local_sdp_port[f] = PortOf(i)
        BY <1>0, <2>6, <3>2 DEF LeakInv
      <4> QED BY <2>1, <2>6, <4>1
    <3> QED BY <3>1, <3>2
  <2>9. HeldIsExclusive'
    <3> SUFFICES ASSUME ~loose, NEW f \in Engines, local_sdp_port'[f] # 0, place'[f] \in {"idle", "closed"}
                 PROVE  /\ track'[SlotOf(local_sdp_port'[f])] = 1
                        /\ \A g \in Engines \ {f} :
                             place'[g] \in {"idle", "closed"} => local_sdp_port'[g] # local_sdp_port'[f]
      BY <2>1 DEF HeldIsExclusive
    <3>1. ASSUME NEW g \in Engines \ {e}, place[g] \in {"idle", "closed"}, local_sdp_port[g] # 0
          PROVE  /\ track[SlotOf(local_sdp_port[g])] = 1
                 /\ SlotOf(local_sdp_port[g]) \in Slots \ {index}
                 /\ local_sdp_port[g] # PortOf(index)
                 /\ \A h \in Engines \ {g} : place[h] \in {"idle", "closed"} => local_sdp_port[h] # local_sdp_port[g]
      <4>1. /\ track[SlotOf(local_sdp_port[g])] = 1
            /\ \A h \in Engines \ {g} : place[h] \in {"idle", "closed"} => local_sdp_port[h] # local_sdp_port[g]
        BY <1>0, <3>1 DEF HeldIsExclusive
      <4>2. SlotOf(local_sdp_port[g]) \in Slots
        BY <1>0, <3>1, PortType, PortLemma DEF Ports
      <4> QED BY <2>1, <2>4, <4>1, <4>2, SMTT(60)
    <3>2. CASE f = e
      BY <2>4, <2>6, <3>1, <3>2
    <3>3. CASE f # e
      BY <2>4, <2>6, <3>1, <3>3, SMTT(60)
    <3> QED BY <3>2, <3>3
  <2> QED BY <2>2, <2>5, <2>7, <2>8, <2>9 DEF PortInv
<1>9. ASSUME NEW e \in Engines, ActivateRtp(e)
      PROVE  PortInv'
  <2>1. /\ rtp_session' = [rtp_session EXCEPT ![e] = TRUE]
        /\ UNCHANGED <<track, track_used, port_lock, index, tries, place, local_sdp_port, adv_sdp_port, up, loose>>
    BY <1>9 DEF ActivateRtp, alloc, locals
  <2>2. PortTypeOK' /\ LockInv'
    BY <1>0, <2>1 DEF PortTypeOK, LockInv
  <2> QED BY <2>1, <2>2, QuietStep
<1>10. ASSUME NEW e \in Engines, ActivateFails(e)
       PROVE  PortInv'
  <2>1. /\ place[e] = "idle" /\ free_port(local_sdp_port[e])
        /\ up' = [up EXCEPT ![e] = FALSE]
        /\ loose' = (loose \/ local_sdp_port[e] # 0)
        /\ UNCHANGED <<port_lock, index, tries, place, local_sdp_port, adv_sdp_port, rtp_session>>
    BY <1>10 DEF ActivateFails, locals
  <2>2. up' \in [Engines -> BOOLEAN] /\ loose' \in BOOLEAN
    BY <1>0, <2>1 DEF PortTypeOK
  <2>3. PortTypeOK' /\ LockInv'
    BY <1>0, <2>1, <2>2, FreePort, PortType DEF PortTypeOK, LockInv
  <2> QED BY <2>1, <2>3, ReleaseStep
<1>11. ASSUME NEW e \in Engines, DeactivateRtp(e)
       PROVE  PortInv'
  <2>1. /\ place[e] = "closed" /\ free_port(local_sdp_port[e])
        /\ local_sdp_port' = [local_sdp_port EXCEPT ![e] = 0]
        /\ adv_sdp_port' = [adv_sdp_port EXCEPT ![e] = FALSE]
        /\ up' = [up EXCEPT ![e] = TRUE]
        /\ place' = [place EXCEPT ![e] = "idle"]
        /\ UNCHANGED <<port_lock, index, tries, rtp_session, loose>>
    BY <1>11 DEF DeactivateRtp, locals
  <2>2. /\ local_sdp_port'[e] = 0
        /\ \A f \in Engines \ {e} : place'[f] = place[f] /\ local_sdp_port'[f] = local_sdp_port[f]
    BY <1>0, <2>1 DEF PortTypeOK
  <2>3. PortTypeOK' /\ LockInv'
    BY <1>0, <2>1, FreePort, PortType DEF PortTypeOK, LockInv
  <2> QED BY <2>1, <2>2, <2>3, ReleaseStep
<1>12. ASSUME NEW e \in Engines, CloseRtp(e)
       PROVE  PortInv'
  <2>1. /\ place[e] = "idle" /\ place' = [place EXCEPT ![e] = "closed"]
        /\ rtp_session' = [rtp_session EXCEPT ![e] = FALSE]
        /\ UNCHANGED <<track, track_used, port_lock, index, tries, local_sdp_port, adv_sdp_port, up, loose>>
    BY <1>12 DEF CloseRtp, alloc, locals
  <2>2. PortTypeOK' /\ LockInv'
    BY <1>0, <2>1 DEF PortTypeOK, LockInv
  <2>3. \A f \in Engines : place'[f] \in {"idle", "closed"} <=> place[f] \in {"idle", "closed"}
    BY <1>0, <2>1 DEF PortTypeOK
  <2> QED BY <2>1, <2>2, <2>3, QuietStep
<1>13. ASSUME NEW e \in Engines, NEW p \in Recovered, Recover(e, p)
       PROVE  PortInv'
  <2>1. /\ local_sdp_port[e] = 0 /\ local_sdp_port' = [local_sdp_port EXCEPT ![e] = p]
        /\ adv_sdp_port' = [adv_sdp_port EXCEPT ![e] = TRUE] /\ loose' = TRUE
        /\ UNCHANGED <<track, track_used, port_lock, index, tries, place, rtp_session, up>>
    BY <1>13 DEF Recover, alloc, locals
  <2>2. p \in {0} \cup {PortOf(i) : i \in Slots}
    BY RecoveredAssumption
  <2>3. PortTypeOK' /\ LockInv' /\ UsedIsCounted'
    BY <1>0, <2>1, <2>2 DEF PortTypeOK, LockInv, UsedIsCounted
  <2>4. LeakInv'
    <3> SUFFICES ASSUME NEW i \in Slots, track'[i] > 0
                 PROVE  \E f \in Engines : place'[f] \in {"idle", "closed"} /\ local_sdp_port'[f] = PortOf(i)
      BY DEF LeakInv
    <3>1. PICK f \in Engines : place[f] \in {"idle", "closed"} /\ local_sdp_port[f] = PortOf(i)
      BY <1>0, <2>1 DEF LeakInv
    <3>2. f # e
      BY <2>1, <3>1, PortLemma
    <3> QED BY <1>0, <2>1, <3>1, <3>2 DEF PortTypeOK
  <2>5. HeldIsExclusive'
    BY <2>1 DEF HeldIsExclusive
  <2> QED BY <2>3, <2>4, <2>5 DEF PortInv
<1>14. CASE UNCHANGED portVars
  BY <1>0, <1>14 DEF portVars, alloc, locals, engine, PortInv, PortTypeOK, LockInv,
     UsedIsCounted, LeakInv, HeldIsExclusive
<1> QED
  BY <1>1, <1>2, <1>3, <1>4, <1>5, <1>6, <1>7, <1>8, <1>9, <1>10, <1>11, <1>12, <1>13, <1>14
  DEF PortNext, RequestStep, EngineStep

(* The invariant holds of every state of every behaviour. *)
LEMMA PortInvariance == ASSUME EvenPorts PROVE PortSpec => []PortInv
<1>1. PortInit => PortInv
  BY InitInv
<1>2. PortInv /\ [PortNext]_portVars => PortInv'
  BY NextInv
<1> QED BY <1>1, <1>2, PTL DEF PortSpec

(* The table, the locals of a request and the engines keep their types: no   *)
(* walk of switch_core_port_allocator_request_port leaves the table.         *)
THEOREM PortTypes == ASSUME EvenPorts PROVE PortSpec => []PortTypeOK
<1>1. PortInv => PortTypeOK
  BY DEF PortInv
<1> QED BY <1>1, PortInvariance, PTL

(* track_used is the number of slots in use, also after repeated releases by *)
(* switch_core_port_allocator_free_port.                                     *)
THEOREM CountIsRight == ASSUME EvenPorts PROVE PortSpec => []UsedIsCounted
<1>1. PortInv => UsedIsCounted
  BY DEF PortInv
<1> QED BY <1>1, PortInvariance, PTL

(* A port marked as used has an engine that will give it back, whether or    *)
(* not switch_rtp_new has failed.                                            *)
THEOREM NothingLeaks == ASSUME EvenPorts PROVE PortSpec => []NoPortLeak
<1>1. PortInv => NoPortLeak
  BY DEF PortInv, LeakInv, NoPortLeak
<1> QED BY <1>1, PortInvariance, PTL

(* As long as no switch_rtp_new has failed on a port and no call has been    *)
(* recovered, a port has one holder.                                         *)
THEOREM OneHolder == ASSUME EvenPorts PROVE PortSpec => []HeldIsExclusive
<1>1. PortInv => HeldIsExclusive
  BY DEF PortInv
<1> QED BY <1>1, PortInvariance, PTL

(* Every port switch_core_port_allocator_request_port hands out is an even   *)
(* port of the configured range.                                             *)
THEOREM PortsInRange == ASSUME EvenPorts PROVE PortSpec => []PortsAreAsked
<1>1. PortInv => PortsAreAsked
  <2> SUFFICES ASSUME PortInv PROVE PortsAreAsked
    OBVIOUS
  <2>1. even /\ ~odd
    BY DEF EvenPorts, even, odd
  <2>2. ASSUME NEW e \in Engines, local_sdp_port[e] # 0
        PROVE  local_sdp_port[e] \in START_PORT..END_PORT /\ local_sdp_port[e] % 2 = 0
    BY <2>2, PortType, PortLemma DEF PortInv, Ports
  <2> QED BY <2>1, <2>2 DEF PortsAreAsked
<1> QED BY <1>1, PortInvariance, PTL

-----------------------------------------------------------------------------
(* The channel *)


\* From its last look at the messages and at the state on, the session thread is
\* owed a wake-up for whatever comes in.
SleepInv ==
    /\ run \in {"events", "parsed", "drowsy", "asleep"} /\ messages > 0 =>
          WakeupComing \/ gaveUp # {}
    /\ run \in {"drowsy", "asleep"} /\ state # running_state =>
          WakeupComing \/ gaveUp \cap {"parsed", "drowsy"} # {}
    /\ Patient => gaveUp \subseteq {"events"}

\* OCF_HANGUP has one owner, state_mutex keeps the state still for a setter, and
\* only the session thread takes a channel past CS_HANGUP.
HangupInv ==
    /\ ~ocf_hangup => state \in LiveStates /\ \A t \in Threads : pc[t] # "claimed"
    /\ \A t, u \in Threads : pc[t] = "claimed" /\ pc[u] = "claimed" => t = u
    /\ \A t \in Threads : pc[t] = "claimed" => state \in LiveStates
    /\ \A t \in Threads : pc[t] = "set" => state_mutex = t /\ state \in LiveStates
    /\ seen \in DownStates => state = seen

\* The flags count the runs of the handlers, and each of the last states has the
\* handlers of the one before behind it.
HandledInv ==
    /\ hangups = IF ssf_hangup THEN 1 ELSE 0
    /\ reports = IF cf_reporting THEN 1 ELSE 0
    /\ state \in {"REPORTING", "DESTROY"} => ssf_hangup
    /\ state = "DESTROY" => cf_reporting
    /\ run = "done" => state = "DESTROY"

IInv == TypeOK /\ SleepInv /\ HangupInv /\ HandledInv

\* The hangup handlers, run or skipped, have run exactly once afterwards.
LEMMA HandlersEffect ==
    ASSUME TypeOK, HandledInv, NEW c \in Causes, HangupHandlers(c)
    PROVE  ssf_hangup' = TRUE /\ hangups' = 1 /\ reported' \in Causes
  <1>1. ssf_hangup' = TRUE
    BY DEF HangupHandlers
  <1>2. CASE ssf_hangup
    BY <1>1, <1>2 DEF HangupHandlers, TypeOK, HandledInv
  <1>3. CASE ~ssf_hangup
    BY <1>1, <1>3, SMTT(60) DEF HangupHandlers, TypeOK, HandledInv
  <1> QED
    BY <1>2, <1>3

\* What switch_channel_hangup by the session thread does, early or not.
LEMMA OwnHangupEffect ==
    ASSUME TypeOK, HandledInv, NEW c \in Causes, OwnHangup(c)
    PROVE  /\ ~ocf_hangup /\ ocf_hangup' = TRUE /\ state_mutex = NULL
           /\ state' = "HANGUP" /\ hangup_cause' = c /\ reported' \in Causes
           /\ ssf_hangup' \in BOOLEAN /\ (ssf_hangup => ssf_hangup')
           /\ hangups' = (IF ssf_hangup' THEN 1 ELSE 0) /\ cf_block_state' = FALSE
  <1>1. /\ ~ocf_hangup /\ ocf_hangup' = TRUE /\ state_mutex = NULL
        /\ state' = "HANGUP" /\ hangup_cause' = c /\ cf_block_state' = FALSE
    BY DEF OwnHangup
  <1>2. CASE EarlyHangup
    <2>1. HangupHandlers(c)
      BY <1>2 DEF OwnHangup
    <2> QED
      BY <1>1, <2>1, HandlersEffect
  <1>3. CASE ~EarlyHangup
    <2>1. UNCHANGED <<ssf_hangup, hangups, reported>>
      BY <1>3 DEF OwnHangup
    <2> QED
      BY <1>1, <2>1 DEF TypeOK, HandledInv
  <1> QED
    BY <1>2, <1>3

\* What a deed of the session thread can do to the state and the flags, whatever
\* handler, message or private event causes it.
LEMMA DeedEffect ==
    ASSUME TypeOK, HangupInv, HandledInv, Deed
    PROVE  /\ state' \in States /\ hangup_cause' \in Causes /\ reported' \in Causes
           /\ ocf_hangup' \in BOOLEAN /\ ssf_hangup' \in BOOLEAN /\ hangups' \in Nat
           /\ hangups' = IF ssf_hangup' THEN 1 ELSE 0
           /\ cf_block_state' \in BOOLEAN
           /\ ssf_hangup => ssf_hangup'
           /\ ocf_hangup => ocf_hangup'
           /\ state # state' => state_mutex = NULL
           /\ state \in LiveStates => state' \in LiveStates \/ (state' = "HANGUP" /\ ~ocf_hangup)
           /\ state \in DownStates => state' = state
           /\ ~ocf_hangup' => state' \in LiveStates
  <1>0. /\ state \in States /\ hangup_cause \in Causes /\ reported \in Causes
        /\ ocf_hangup \in BOOLEAN /\ ssf_hangup \in BOOLEAN /\ hangups \in Nat
        /\ hangups = IF ssf_hangup THEN 1 ELSE 0
        /\ cf_block_state \in BOOLEAN
        /\ ~ocf_hangup => state \in LiveStates
    BY DEF TypeOK, HangupInv, HandledInv
  <1>1. CASE UNCHANGED <<state, hangup_cause, ocf_hangup, cf_block_state, ssf_hangup, hangups,
                          reported>>
    BY <1>0, <1>1 DEF States, LiveStates, DownStates
  <1>2. CASE /\ \E s \in Wanted : OwnSetState(s)
             /\ UNCHANGED <<hangup_cause, ocf_hangup, cf_block_state, ssf_hangup, hangups, reported>>
    <2>1. PICK s \in Wanted : OwnSetState(s)
      BY <1>2
    <2>2. s \in LiveStates
      BY ChannelAssumption
    <2>3. state \in DownStates => ~MayChange(state, s)
      BY <2>2 DEF MayChange, LiveStates, DownStates
    <2> QED
      BY <1>0, <1>2, <2>1, <2>2, <2>3 DEF OwnSetState, States, LiveStates, DownStates
  <1>3. CASE OwnHangup("NORMAL_CLEARING")
    <2>1. "NORMAL_CLEARING" \in Causes
      BY DEF Causes
    <2>2. /\ ~ocf_hangup /\ ocf_hangup' = TRUE /\ state_mutex = NULL
          /\ state' = "HANGUP" /\ hangup_cause' = "NORMAL_CLEARING" /\ reported' \in Causes
          /\ ssf_hangup' \in BOOLEAN /\ (ssf_hangup => ssf_hangup')
          /\ hangups' = (IF ssf_hangup' THEN 1 ELSE 0) /\ cf_block_state' = FALSE
      BY <1>3, <2>1, OwnHangupEffect
    <2>3. hangups' \in Nat
      BY <2>2
    <2> QED
      BY <1>0, <2>1, <2>2, <2>3 DEF States, LiveStates, DownStates
  <1> QED
    BY <1>1, <1>2, <1>3 DEF Deed

\* Every step keeps the variables in their types.
LEMMA TypeStep == IInv /\ [Next]_vars => TypeOK'
  <1> SUFFICES ASSUME TypeOK, HangupInv, HandledInv, [Next]_vars PROVE TypeOK'
    BY DEF IInv
  <1> USE ChannelAssumption
  <1>1. CASE Start \/ Unblock \/ SpuriousWakeup \/ Top \/ Blocked \/ End \/ Decide \/ Sleep
             \/ WakeUp
    BY <1>1 DEF TypeOK, Start, Unblock, SpuriousWakeup, Top, Blocked, Enter, End, Decide,
       Sleep, WakeUp, chanVars,
       onceVars, userVars, RunPlaces
  <1>2. CASE SetRunning \/ Handle \/ ParseMessages \/ ParseEvents \/ ParseAgain
    <2>1. Deed
      BY <1>2 DEF SetRunning, Handle, ParseMessages, ParseEvents, ParseAgain
    <2>2. messages' \in 0 .. QueueLen
      BY <1>2, SMTT(60) DEF TypeOK, SetRunning, Handle, ParseMessages, ParseEvents, ParseAgain
    <2> QED
      BY <1>2, <2>1, <2>2, DeedEffect
         DEF TypeOK, SetRunning, Handle, ParseMessages, ParseEvents, ParseAgain, userVars, RunPlaces, States, LiveStates
  <1>3. CASE LookAround
    <2>0. new_loops' \in 0 .. NewLoops /\ messages' \in 0 .. QueueLen
      BY <1>3, SMTT(60) DEF TypeOK, LookAround
    <2>1. CASE Deed
      BY <1>3, <2>0, <2>1, DeedEffect DEF TypeOK, LookAround, userVars, RunPlaces
    <2>2. CASE \E c \in Causes \ {"NONE"} : OwnHangup(c)
      <3>1. PICK c \in Causes : OwnHangup(c)
        BY <2>2
      <3>2. /\ ocf_hangup' = TRUE /\ state' = "HANGUP" /\ hangup_cause' = c
            /\ reported' \in Causes /\ ssf_hangup' \in BOOLEAN
            /\ hangups' = (IF ssf_hangup' THEN 1 ELSE 0) /\ cf_block_state' = FALSE
        BY <3>1, OwnHangupEffect
      <3>3. hangups' \in Nat
        BY <3>2
      <3> QED
        BY <1>3, <2>0, <3>2, <3>3
           DEF TypeOK, LookAround, userVars, RunPlaces, States, DownStates
    <2> QED
      BY <1>3, <2>1, <2>2 DEF LookAround
  <1>4. CASE HandleHangup
    <2>1. hangup_cause \in Causes /\ HangupHandlers(hangup_cause)
      BY <1>4 DEF TypeOK, HandleHangup
    <2>2. ssf_hangup' = TRUE /\ hangups' = 1 /\ reported' \in Causes
      BY <2>1, HandlersEffect
    <2> QED
      BY <1>4, <2>2 DEF TypeOK, HandleHangup, OwnSetState, userVars, RunPlaces, States,
         LiveStates, DownStates
  <1>5. CASE HandleReporting
    <2>1. reports' \in Nat /\ cf_reporting' \in BOOLEAN
      BY <1>5, SMTT(60) DEF TypeOK, HandleReporting, ReportingHandlers
    <2> QED
      BY <1>5, <2>1 DEF TypeOK, HandleReporting, OwnSetState, userVars, RunPlaces, States,
         LiveStates, DownStates
  <1>6. ASSUME NEW t \in Threads, UserStep(t) \/ UserStart(t) PROVE TypeOK'
    <2>1. CASE \E s \in Wanted : SetState(t, s)
      BY <2>1 DEF TypeOK, SetState, chanVars, onceVars, UserPlaces
    <2>2. CASE CarefulSet(t)
      BY <2>2, SMTT(60) DEF TypeOK, CarefulSet, onceVars, UserPlaces, States, LiveStates
    <2>3. CASE WakeSignals(t)
      BY <2>3 DEF TypeOK, WakeSignals, WakeEnds, onceVars, UserPlaces, RunPlaces
    <2>4. CASE WakeRepeats(t)
      BY <2>4 DEF TypeOK, WakeRepeats, WakeEnds, onceVars, UserPlaces
    <2>5. CASE WakeGivesUp(t)
      <3>1. gaveUp' \subseteq {"events", "parsed", "drowsy"}
        BY <2>5 DEF TypeOK, WakeGivesUp, MayRunOut, SessionMutexTaken, ThreadMutexTaken
      <3> QED
        BY <2>5, <3>1 DEF TypeOK, WakeGivesUp, WakeEnds, onceVars, UserPlaces
    <2>6. CASE QueueMessage(t)
      BY <2>6, SMTT(60) DEF TypeOK, QueueMessage, chanVars, onceVars, UserPlaces
    <2>7. CASE HangupClaim(t)
      BY <2>7 DEF TypeOK, HangupClaim, onceVars, UserPlaces
    <2>8. CASE HangupState(t)
      BY <2>8 DEF TypeOK, HangupState, onceVars, UserPlaces, States, DownStates
    <2>9. CASE HangupCause(t)
      BY <2>9, SMTT(60) DEF TypeOK, HangupCause, onceVars, UserPlaces, RunPlaces, Causes
    <2> QED
      BY <1>6, <2>1, <2>2, <2>3, <2>4, <2>5, <2>6, <2>7, <2>8, <2>9
         DEF UserStep, UserStart
  <1>7. CASE UNCHANGED vars
    BY <1>7 DEF TypeOK, vars, chanVars, onceVars, userVars
  <1> QED
    BY <1>1, <1>2, <1>3, <1>4, <1>5, <1>6, <1>7 DEF Next, SessionStep

\* Every step keeps the debt to a session thread that falls asleep.
LEMMA SleepStep == IInv /\ [Next]_vars => SleepInv'
  <1> SUFFICES ASSUME TypeOK, SleepInv, [Next]_vars PROVE SleepInv'
    BY DEF IInv
  <1>1. CASE Start \/ Top \/ Blocked \/ SetRunning \/ Handle \/ HandleHangup \/ HandleReporting
             \/ End \/ LookAround \/ WakeUp \/ ParseAgain \/ SpuriousWakeup
    <2>1. run' \notin {"events", "parsed", "drowsy", "asleep"} /\ gaveUp' = gaveUp
      BY <1>1 DEF Start, Top, Blocked, Enter, SetRunning, Handle, HandleHangup, HandleReporting,
         End, LookAround, WakeUp, ParseAgain, SpuriousWakeup, userVars
    <2> QED
      BY <2>1 DEF SleepInv
  <1>2. CASE ParseMessages
    <2>1. run' = "events" /\ gaveUp' = {} /\ ~(messages' > 0)
      BY <1>2, SMTT(60) DEF ParseMessages
    <2> QED
      BY <2>1 DEF SleepInv
  <1>7. CASE ParseEvents
    <2>1. /\ run = "events" /\ run' = "parsed" /\ UNCHANGED <<pc, gaveUp>>
          /\ messages' > 0 => messages > 0
      BY <1>7, SMTT(60) DEF ParseEvents, userVars
    <2> QED
      BY <2>1 DEF SleepInv, WakeupComing
  <1>8. CASE Unblock
    BY <1>8 DEF SleepInv, WakeupComing, Unblock, userVars
  <1>3. CASE Decide
    BY <1>3 DEF SleepInv, Decide, WakeupComing, userVars
  <1>4. CASE Sleep
    BY <1>4 DEF SleepInv, Sleep, WakeupComing, userVars, chanVars
  <1>5. ASSUME NEW t \in Threads, UserStep(t) \/ UserStart(t) PROVE SleepInv'
    <2>0. pc \in [Threads -> UserPlaces]
      BY DEF TypeOK
    <2>1. CASE CarefulSet(t) \/ HangupState(t) \/ HangupCause(t) \/ QueueMessage(t)
      <3>1. WakeupComing' /\ gaveUp' = gaveUp
        BY <2>0, <2>1 DEF WakeupComing, CarefulSet, HangupState, HangupCause, QueueMessage
      <3> QED
        BY <3>1 DEF SleepInv
    <2>2. CASE HangupClaim(t) \/ \E s \in Wanted : SetState(t, s)
      <3>1. WakeupComing => WakeupComing'
        BY <2>0, <2>2 DEF WakeupComing, HangupClaim, SetState
      <3> QED
        BY <2>2, <3>1 DEF SleepInv, HangupClaim, SetState, chanVars
    <2>3. CASE WakeSignals(t) \/ WakeRepeats(t)
      <3>1. run' \notin {"events", "parsed", "drowsy", "asleep"} /\ gaveUp' = gaveUp
        BY <2>3 DEF WakeSignals, WakeRepeats, SessionMutexTaken, ThreadMutexTaken
      <3> QED
        BY <3>1 DEF SleepInv
    <2>4. CASE WakeGivesUp(t)
      <3>1. /\ run' = run /\ run \in {"lock", "events", "parsed", "drowsy"}
            /\ gaveUp' = IF run = "lock" THEN gaveUp ELSE gaveUp \cup {run}
            /\ Patient => run \in {"lock", "events"}
        BY <2>4 DEF WakeGivesUp, MayRunOut, SessionMutexTaken, ThreadMutexTaken
      <3> QED
        BY <3>1 DEF SleepInv
    <2> QED
      BY <1>5, <2>1, <2>2, <2>3, <2>4 DEF UserStep, UserStart
  <1>6. CASE UNCHANGED vars
    BY <1>6 DEF SleepInv, WakeupComing, vars, chanVars, userVars
  <1> QED
    BY <1>1, <1>2, <1>3, <1>4, <1>5, <1>6, <1>7, <1>8 DEF Next, SessionStep

\* A step of the session thread that does a deed keeps HangupInv.
LEMMA HangupDeed ==
    ASSUME TypeOK, HangupInv, HandledInv, Deed, UNCHANGED <<pc, state_mutex>>,
           seen' = seen \/ seen' \in LiveStates
    PROVE  HangupInv'
  <1>1. /\ ocf_hangup => ocf_hangup'
        /\ state # state' => state_mutex = NULL
        /\ state \in LiveStates => state' \in LiveStates \/ (state' = "HANGUP" /\ ~ocf_hangup)
        /\ state \in DownStates => state' = state
        /\ ~ocf_hangup' => state' \in LiveStates
    BY DeedEffect
  <1>2. state \in LiveStates \cup DownStates /\ state_mutex \in Threads \cup {NULL}
    BY DEF TypeOK, States
  <1> QED
    BY <1>1, <1>2, ChannelAssumption DEF HangupInv, LiveStates, DownStates

\* Every step keeps the hangup exclusive and the state of a channel going down.
LEMMA HangupStep == IInv /\ [Next]_vars => HangupInv'
  <1> SUFFICES ASSUME TypeOK, HangupInv, HandledInv, [Next]_vars PROVE HangupInv'
    BY DEF IInv
  <1>1. CASE Start \/ Unblock \/ SpuriousWakeup \/ Top \/ Blocked \/ End \/ Decide \/ Sleep
             \/ WakeUp
    BY <1>1 DEF HangupInv, Start, Unblock, SpuriousWakeup, Top, Blocked, Enter, End, Decide,
       Sleep, WakeUp, chanVars,
       userVars
  <1>2. CASE SetRunning \/ Handle \/ ParseMessages \/ ParseEvents \/ ParseAgain
    BY <1>2, HangupDeed DEF SetRunning, Handle, ParseMessages, ParseEvents, ParseAgain, userVars, LiveStates
  <1>3. CASE LookAround
    <2>1. CASE Deed
      BY <1>3, <2>1, HangupDeed DEF LookAround, userVars
    <2>2. CASE \E c \in Causes \ {"NONE"} : OwnHangup(c)
      BY <1>3, <2>2, ChannelAssumption
         DEF HangupInv, LookAround, OwnHangup, userVars, LiveStates, DownStates
    <2> QED
      BY <1>3, <2>1, <2>2 DEF LookAround
  <1>4. CASE HandleHangup \/ HandleReporting
    BY <1>4, ChannelAssumption DEF HangupInv, HandleHangup, HandleReporting, OwnSetState, MayChange,
       userVars, LiveStates, DownStates
  <1>5. ASSUME NEW t \in Threads, UserStep(t) \/ UserStart(t) PROVE HangupInv'
    <2>0. pc \in [Threads -> UserPlaces] /\ want \in [Threads -> LiveStates] /\ NULL \notin Threads
          /\ state \in States
      BY ChannelAssumption DEF TypeOK
    <2>1. CASE \E s \in Wanted : SetState(t, s)
      <3>1. PICK s \in Wanted : SetState(t, s)
        BY <2>1
      <3>2. s \in LiveStates
        BY ChannelAssumption
      <3>3. state \in LiveStates
        BY <2>0, <3>1, <3>2 DEF SetState, MayChange, States, LiveStates, DownStates
      <3> QED
        BY <2>0, <3>1, <3>3 DEF HangupInv, SetState, chanVars
    <2>2. CASE CarefulSet(t)
      <3>1. state_mutex = t /\ state \in LiveStates /\ state' \in LiveStates
        BY <2>0, <2>2 DEF HangupInv, CarefulSet
      <3> QED
        BY <2>0, <2>2, <3>1 DEF HangupInv, CarefulSet, LiveStates, DownStates
    <2>3. CASE WakeSignals(t) \/ WakeRepeats(t) \/ WakeGivesUp(t)
      BY <2>0, <2>3 DEF HangupInv, WakeSignals, WakeRepeats, WakeGivesUp, WakeEnds
    <2>4. CASE QueueMessage(t)
      BY <2>0, <2>4 DEF HangupInv, QueueMessage, chanVars
    <2>5. CASE HangupClaim(t)
      BY <2>0, <2>5 DEF HangupInv, HangupClaim
    <2>6. CASE HangupState(t)
      <3>1. ocf_hangup /\ state \in LiveStates /\ seen \notin DownStates
        BY <2>6 DEF HangupInv, HangupState, LiveStates, DownStates
      <3> QED
        BY <2>0, <2>6, <3>1 DEF HangupInv, HangupState
    <2>7. CASE HangupCause(t)
      BY <2>0, <2>7 DEF HangupInv, HangupCause
    <2> QED
      BY <1>5, <2>1, <2>2, <2>3, <2>4, <2>5, <2>6, <2>7 DEF UserStep, UserStart
  <1>6. CASE UNCHANGED vars
    BY <1>6 DEF HangupInv, vars, chanVars, userVars
  <1> QED
    BY <1>1, <1>2, <1>3, <1>4, <1>5, <1>6 DEF Next, SessionStep

\* Every step keeps the count of the handlers' runs.
LEMMA HandledStep == IInv /\ [Next]_vars => HandledInv'
  <1> SUFFICES ASSUME TypeOK, HangupInv, HandledInv, [Next]_vars PROVE HandledInv'
    BY DEF IInv
  <1>1. CASE Start \/ Unblock \/ SpuriousWakeup \/ Top \/ Blocked \/ End \/ Decide \/ Sleep
             \/ WakeUp
    BY <1>1, SMTT(60) DEF HandledInv, Start, Unblock, SpuriousWakeup, Top, Blocked, Enter, End, Decide,
       Sleep, WakeUp, chanVars,
       onceVars
  <1>2. CASE Deed /\ UNCHANGED <<cf_reporting, reports>> /\ run' # "done"
    <2>1. /\ hangups' = IF ssf_hangup' THEN 1 ELSE 0
          /\ ssf_hangup => ssf_hangup'
          /\ state' \in {"REPORTING", "DESTROY"} => state' = state
      BY <1>2, DeedEffect DEF TypeOK, States, LiveStates, DownStates
    <2> QED
      BY <1>2, <2>1 DEF HandledInv
  <1>3. CASE SetRunning \/ Handle \/ ParseMessages \/ ParseEvents \/ ParseAgain
    BY <1>2, <1>3 DEF SetRunning, Handle, ParseMessages, ParseEvents, ParseAgain
  <1>4. CASE LookAround
    <2>1. CASE Deed
      BY <1>2, <1>4, <2>1 DEF LookAround
    <2>2. CASE \E c \in Causes \ {"NONE"} : OwnHangup(c)
      <3>1. PICK c \in Causes : OwnHangup(c)
        BY <2>2
      <3>2. state' = "HANGUP" /\ hangups' = IF ssf_hangup' THEN 1 ELSE 0
        BY <3>1, OwnHangupEffect
      <3> QED
        BY <1>4, <3>2 DEF HandledInv, LookAround
    <2> QED
      BY <1>4, <2>1, <2>2 DEF LookAround
  <1>5. CASE HandleHangup
    <2>1. hangup_cause \in Causes /\ HangupHandlers(hangup_cause)
      BY <1>5 DEF TypeOK, HandleHangup
    <2>2. ssf_hangup' = TRUE /\ hangups' = 1
      BY <2>1, HandlersEffect
    <2>3. state = "HANGUP" /\ state' # "DESTROY"
      BY <1>5 DEF HangupInv, HandleHangup, DownStates, OwnSetState
    <2> QED
      BY <1>5, <2>2, <2>3 DEF HandledInv, HandleHangup
  <1>6. CASE HandleReporting
    <2>1. state = "REPORTING" /\ state' = "DESTROY"
      BY <1>6 DEF HangupInv, HandleReporting, DownStates, OwnSetState, MayChange
    <2>2. cf_reporting' = TRUE /\ reports' = 1
      <3>1. CASE cf_reporting
        BY <1>6, <3>1 DEF HandledInv, HandleReporting, ReportingHandlers
      <3>2. CASE ~cf_reporting
        BY <1>6, <3>2, SMTT(60) DEF HandledInv, HandleReporting, ReportingHandlers
      <3> QED
        BY <3>1, <3>2
    <2> QED
      BY <1>6, <2>1, <2>2 DEF HandledInv, HandleReporting
  <1>7. ASSUME NEW t \in Threads, UserStep(t) \/ UserStart(t) PROVE HandledInv'
    <2>1. UNCHANGED onceVars
      BY <1>7 DEF UserStep, UserStart, CarefulSet, WakeSignals, WakeRepeats, WakeGivesUp,
         WakeEnds, HangupState, HangupCause, SetState, QueueMessage, HangupClaim
    <2>2. run' = "done" => run = "done"
      BY <1>7 DEF UserStep, UserStart, CarefulSet, WakeSignals, WakeRepeats, WakeGivesUp,
         WakeEnds, HangupState, HangupCause, SetState, QueueMessage, HangupClaim
    <2>3. CASE CarefulSet(t)
      <3>1. state \in LiveStates /\ state' \in LiveStates
        BY <2>3 DEF HangupInv, CarefulSet, TypeOK
      <3> QED
        BY <2>1, <2>2, <3>1 DEF HandledInv, onceVars, LiveStates
    <2>4. CASE HangupState(t)
      <3>1. state \in LiveStates /\ state' = "HANGUP"
        BY <2>4 DEF HangupInv, HangupState
      <3> QED
        BY <2>1, <2>2, <3>1 DEF HandledInv, onceVars, LiveStates
    <2>5. CASE state' = state
      BY <2>1, <2>2, <2>5 DEF HandledInv, onceVars
    <2> QED
      BY <1>7, <2>3, <2>4, <2>5 DEF UserStep, UserStart, WakeSignals, WakeRepeats, WakeGivesUp,
         WakeEnds, HangupCause, SetState, QueueMessage, HangupClaim, chanVars
  <1>8. CASE UNCHANGED vars
    BY <1>8 DEF HandledInv, vars, chanVars, onceVars
  <1> QED
    BY <1>1, <1>3, <1>4, <1>5, <1>6, <1>7, <1>8 DEF Next, SessionStep

\* A new channel satisfies the invariant.
LEMMA InitIInv == Init => IInv
  <1> SUFFICES ASSUME Init PROVE IInv
    OBVIOUS
  <1>1. TypeOK
    <2>1. messages \in 0 .. QueueLen /\ new_loops \in 0 .. NewLoops
      BY ChannelAssumption, SMTT(60) DEF Init
    <2>2. pc \in [Threads -> UserPlaces] /\ want \in [Threads -> LiveStates]
      BY DEF Init, UserPlaces, LiveStates
    <2> QED
      BY <2>1, <2>2 DEF Init, TypeOK, States, LiveStates, Causes, RunPlaces
  <1>2. SleepInv /\ HangupInv /\ HandledInv
    BY DEF Init, SleepInv, HangupInv, HandledInv, LiveStates, DownStates
  <1> QED
    BY <1>1, <1>2 DEF IInv

\* The invariant is inductive, so it holds throughout.
LEMMA Invariance == Spec => []IInv
  <1>1. IInv /\ [Next]_vars => IInv'
    BY TypeStep, SleepStep, HangupStep, HandledStep DEF IInv
  <1> QED
    BY InitIInv, <1>1, PTL DEF Spec

\* The variables of the session's state machine keep their types.
THEOREM TypeCorrect == Spec => []TypeOK
  <1>1. IInv => TypeOK
    BY DEF IInv
  <1> QED
    BY Invariance, <1>1, PTL

\* switch_core_session_run does not wait with a new state or a message unnoticed,
\* unless a waker is on its way, has given up on a thread that had compared the
\* state for the last time, or (for a message only) on one that was in its private
\* events: for any number of wakers.
THEOREM NeverSleepsSilently == Spec => []NoSilentSleep
  <1>1. IInv => NoSilentSleep
    BY DEF IInv, SleepInv, NoSilentSleep
  <1> QED
    BY Invariance, <1>1, PTL

\* When the ten tries of switch_core_session_wake_session_thread outlast the few
\* statements between the comparison and the wait, a new state is never slept over:
\* private events that keep both mutexes for long do no harm to it.
THEOREM StatesAreNotSleptOver ==
    ASSUME Patient
    PROVE  Spec => [](run = "asleep" /\ state # running_state => WakeupComing)
  <1>1. IInv => (run = "asleep" /\ state # running_state => WakeupComing)
    BY DEF IInv, SleepInv
  <1> QED
    BY Invariance, <1>1, PTL

\* The hangup and reporting handlers run once in the life of a session, with
\* early hangup and without.
THEOREM HandlersRunOnce == Spec => []HandledOnce
  <1>1. IInv => HandledOnce
    BY SMTT(60) DEF IInv, HandledInv, HandledOnce
  <1> QED
    BY Invariance, <1>1, PTL

\* No thread's switch_channel_set_state revives a channel that was hung up.
THEOREM DownStaysDown == Spec => NoRevival
  <1> DEFINE Stays == /\ state = "HANGUP" => state' \in DownStates
                      /\ state = "REPORTING" => state' \in DownStates \ {"HANGUP"}
                      /\ state = "DESTROY" => state' = "DESTROY"
  <1>1. ASSUME IInv, [Next]_vars PROVE [Stays]_vars
    <2> USE <1>1
    <2>0. TypeOK /\ HangupInv /\ HandledInv
      BY DEF IInv
    <2>1. CASE state' = state
      BY <2>1 DEF DownStates
    <2>2. CASE Deed
      BY <2>0, <2>2, DeedEffect DEF DownStates
    <2>3. CASE \E c \in Causes : OwnHangup(c)
      BY <2>0, <2>3 DEF OwnHangup, HangupInv, LiveStates
    <2>4. CASE HandleHangup \/ HandleReporting
      BY <2>0, <2>4 DEF HandleHangup, HandleReporting, OwnSetState, MayChange, HangupInv,
         LiveStates, DownStates
    <2>5. ASSUME NEW t \in Threads, CarefulSet(t) \/ HangupState(t) PROVE Stays
      BY <2>0, <2>5 DEF CarefulSet, HangupState, HangupInv, LiveStates
    <2>6. ASSUME NEW t \in Threads, UserStep(t) \/ UserStart(t) PROVE [Stays]_vars
      BY <2>1, <2>5, <2>6 DEF UserStep, UserStart, WakeSignals, WakeRepeats, WakeGivesUp,
         WakeEnds, HangupCause, SetState, QueueMessage, HangupClaim, chanVars
    <2>7. CASE LookAround
      BY <2>2, <2>3, <2>7 DEF LookAround
    <2>8. CASE SetRunning \/ Handle \/ ParseMessages \/ ParseEvents \/ ParseAgain
      BY <2>2, <2>8 DEF SetRunning, Handle, ParseMessages, ParseEvents, ParseAgain
    <2>9. CASE Start \/ Unblock \/ SpuriousWakeup \/ Top \/ Blocked \/ End \/ Decide \/ Sleep
             \/ WakeUp
      BY <2>1, <2>9 DEF Start, Unblock, SpuriousWakeup, Top, Blocked, Enter, End, Decide, Sleep,
         WakeUp, chanVars
    <2> QED
      BY <2>4, <2>6, <2>7, <2>8, <2>9 DEF Next, SessionStep
  <1> QED
    BY Invariance, <1>1, PTL DEF Spec, NoRevival
=============================================================================

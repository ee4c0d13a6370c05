--------------------------- MODULE PortAllocator ---------------------------
(* The RTP port allocator (switch_core_port_allocator.c), the two functions  *)
(* of switch_rtp.c that call it under port_lock, and the media engines that  *)
(* ask for a port, open an RTP session on it and give it back                *)
(* (switch_core_media.c).  One thread at a time works on an engine; one IP   *)
(* address, hence one allocator.                                             *)
EXTENDS Integers, FiniteSets

CONSTANTS
  Engines,     \* media engines: the audio, video or text stream of a session
  START_PORT,  \* rtp-start-port
  END_PORT,    \* rtp-end-port
  PortWrap,    \* 2^16: the width of switch_port_t
  Flags,       \* of the allocator: SPF_EVEN, SPF_ODD, SPF_ROBUST_UDP, SPF_ROBUST_TCP
  Foreign,     \* UDP ports that sockets of other processes keep bound
  ForeignTcp,  \* TCP ports that are bound
  Recovered,   \* ports that calls recovered after a crash bring along
  NoEngine     \* port_lock is free

ASSUME PortAssumption ==
  /\ START_PORT \in Nat \ {0}
  /\ END_PORT \in Nat /\ START_PORT <= END_PORT
  /\ PortWrap \in Nat /\ END_PORT < PortWrap
  /\ Flags \subseteq {"SPF_EVEN", "SPF_ODD", "SPF_ROBUST_UDP", "SPF_ROBUST_TCP"}
  /\ NoEngine \notin Engines

VARIABLES
  track,          \* slot -> 1 in use, 0 free, < 0 passed over so many times more
  track_used,
  port_lock,      \* the engine whose request holds the lock
  index, tries,   \* locals of a round of the request, 0 outside of one
  place,          \* where an engine's thread is
  local_sdp_port, \* 0: none
  adv_sdp_port,   \* a port has been advertised
  rtp_session,    \* an RTP session is open, its socket bound to local_sdp_port
  up,             \* switch_channel_up
  loose           \* history: some engine has had a port without holding its slot

locals  == <<index, tries>>
alloc   == <<track, track_used>>
engine  == <<local_sdp_port, adv_sdp_port, rtp_session, up, loose>>
portVars == <<alloc, port_lock, locals, place, engine>>

----------------------------------------------------------------------------
even == "SPF_EVEN" \in Flags
odd  == "SPF_ODD" \in Flags

(* Ports of one parity only: the range is rounded inwards. *)
start == IF even = odd THEN START_PORT
         ELSE IF even THEN START_PORT + (START_PORT % 2)
         ELSE START_PORT + 1 - (START_PORT % 2)

end   == IF even = odd THEN END_PORT
         ELSE IF even THEN END_PORT - (END_PORT % 2)
         ELSE END_PORT - 1 + (END_PORT % 2)

(* Mutant of track_len: the table of one parity is not halved. *)
track_lenWhole == end - start + 2

track_len == IF even /\ odd THEN end - start + 2 ELSE (end - start + 2) \div 2

Slots == 0..track_len - 1

(* The port of a slot, in the width of switch_port_t, and the slot of a port. *)
PortOf(i) == IF even /\ odd THEN (i + start) % PortWrap
             ELSE ((i + start \div 2) * 2) % PortWrap

SlotOf(p) == IF even /\ odd THEN p - start ELSE (p - start) \div 2

(* The range has not been changed since the crash. *)
ASSUME RecoveredAssumption == Recovered \subseteq {PortOf(i) : i \in Slots}

PortInit ==
  /\ track = [i \in Slots |-> 0]
  /\ track_used = 0
  /\ port_lock = NoEngine
  /\ index = 0 /\ tries = 0
  /\ place = [e \in Engines |-> "idle"]
  /\ local_sdp_port = [e \in Engines |-> 0]
  /\ adv_sdp_port = [e \in Engines |-> FALSE]
  /\ rtp_session = [e \in Engines |-> FALSE]
  /\ up = [e \in Engines |-> TRUE]
  /\ loose = FALSE

----------------------------------------------------------------------------
(* switch_rtp_release_port of p: under port_lock; port 0 and a port below    *)
(* the range are ignored, and so is a slot that is not in use.               *)
free_port(p) ==
  /\ port_lock = NoEngine
  /\ IF p # 0 /\ p >= start /\ track[SlotOf(p)] > 0
     THEN /\ track' = [track EXCEPT ![SlotOf(p)] = -4]
          /\ track_used' = track_used - 1
     ELSE UNCHANGED alloc

(* Mutants of ChoosePort: the port held so far is forgotten; it is released  *)
(* before the function looks whether RTP has started.                        *)
ChoosePortForgets(e, force) ==
  /\ place[e] = "idle"
  /\ force \/ ~adv_sdp_port[e]
  /\ ~rtp_session[e]
  /\ place' = [place EXCEPT ![e] = "request"]
  /\ UNCHANGED <<alloc, port_lock, locals, engine>>

ChoosePortReleasesFirst(e, force) ==
  /\ place[e] = "idle"
  /\ force \/ ~adv_sdp_port[e]
  /\ free_port(local_sdp_port[e])
  /\ place' = [place EXCEPT ![e] = IF rtp_session[e] THEN "idle" ELSE "request"]
  /\ UNCHANGED <<port_lock, locals, engine>>

(* switch_core_media_choose_port up to the request: nothing to do when a     *)
(* port is advertised (unless forced) or when RTP has started; the port held *)
(* so far is released.                                                       *)
ChoosePort(e, force) ==
  /\ place[e] = "idle"
  /\ force \/ ~adv_sdp_port[e]
  /\ ~rtp_session[e]
  /\ free_port(local_sdp_port[e])
  /\ place' = [place EXCEPT ![e] = "request"]
  /\ UNCHANGED <<port_lock, locals, engine>>

(* switch_rtp_request_port takes port_lock and enters the allocator. *)
RequestPort(e) ==
  /\ place[e] = "request"
  /\ port_lock = NoEngine
  /\ port_lock' = e
  /\ place' = [place EXCEPT ![e] = "pick"]
  /\ UNCHANGED <<alloc, locals, engine>>

Return(e, p, adv) ==
  /\ local_sdp_port' = [local_sdp_port EXCEPT ![e] = p]
  /\ adv_sdp_port' = [adv_sdp_port EXCEPT ![e] = adv]
  /\ port_lock' = NoEngine
  /\ index' = 0 /\ tries' = 0
  /\ place' = [place EXCEPT ![e] = "idle"]
  /\ UNCHANGED <<rtp_session, up, loose>>

(* A round of the outer loop: a random slot, or no port when all are in use. *)
PickSlot(e) ==
  /\ place[e] = "pick"
  /\ track_used < track_len
  /\ \E i \in Slots : index' = i
  /\ tries' = 0
  /\ place' = [place EXCEPT ![e] = "walk"]
  /\ UNCHANGED <<alloc, port_lock, engine>>

NoPort(e) ==
  /\ place[e] = "pick"
  /\ ~(track_used < track_len)
  /\ Return(e, 0, adv_sdp_port[e])
  /\ UNCHANGED alloc

(* Mutant of WalkUp: a slot that was set aside stays so. *)
WalkUpKeeps(e) ==
  /\ place[e] = "walk"
  /\ track[index] # 0 /\ tries < track_len
  /\ tries' = tries + 1
  /\ index' = IF index + 1 >= track_len THEN 0 ELSE index + 1
  /\ UNCHANGED <<alloc, port_lock, place, engine>>

(* The inner loop: walk up past a slot that is in use or set aside. *)
WalkUp(e) ==
  /\ place[e] = "walk"
  /\ track[index] # 0 /\ tries < track_len
  /\ tries' = tries + 1
  /\ track' = [track EXCEPT ![index] = IF @ < 0 THEN @ + 1 ELSE @]
  /\ index' = IF index + 1 >= track_len THEN 0 ELSE index + 1
  /\ UNCHANGED <<track_used, port_lock, place, engine>>

(* Every slot was walked past: another round. *)
WalkedAll(e) ==
  /\ place[e] = "walk"
  /\ tries >= track_len
  /\ index' = 0 /\ tries' = 0
  /\ place' = [place EXCEPT ![e] = "pick"]
  /\ UNCHANGED <<alloc, port_lock, engine>>

Bound(p) == p \in Foreign \/ \E e \in Engines : rtp_session[e] /\ local_sdp_port[e] = p

(* test_port binds a socket to the port, without SO_REUSEADDR: one for UDP,  *)
(* one for TCP (for which no configuration asks), whose result replaces the  *)
(* first.                                                                    *)
test_port(p) ==
  IF "SPF_ROBUST_TCP" \in Flags THEN p \notin ForeignTcp
                                ELSE "SPF_ROBUST_UDP" \in Flags => ~Bound(p)

(* A free slot whose port passes the test is taken.  The rest of             *)
(* switch_core_media_choose_port advertises the port, unless the lookup of   *)
(* the external address fails.                                               *)
TakePort(e) ==
  /\ place[e] = "walk"
  /\ track[index] = 0 /\ tries < track_len
  /\ test_port(PortOf(index))
  /\ track' = [track EXCEPT ![index] = 1]
  /\ track_used' = track_used + 1
  /\ \E adv \in {TRUE, adv_sdp_port[e]} : Return(e, PortOf(index), adv)

(* A free slot whose port fails the test is set aside. *)
SetAside(e) ==
  /\ place[e] = "walk"
  /\ track[index] = 0 /\ tries < track_len
  /\ ~test_port(PortOf(index))
  /\ track' = [track EXCEPT ![index] = -4]
  /\ index' = 0 /\ tries' = 0
  /\ place' = [place EXCEPT ![e] = "pick"]
  /\ UNCHANGED <<track_used, port_lock, engine>>

----------------------------------------------------------------------------
(* switch_core_media_activate_rtp with the channel up: switch_rtp_new opens  *)
(* a session on the local port.  The socket has SO_REUSEADDR, so a port that *)
(* another session has bound is no obstacle.                                 *)
ActivateRtp(e) ==
  /\ place[e] = "idle" /\ up[e] /\ ~rtp_session[e]
  /\ local_sdp_port[e] # 0
  /\ rtp_session' = [rtp_session EXCEPT ![e] = TRUE]
  /\ UNCHANGED <<alloc, port_lock, locals, place, local_sdp_port, adv_sdp_port, up, loose>>

(* switch_rtp_new fails (no port, no remote address, no timer, no socket):   *)
(* it releases the port, the engine keeps the number, the call is hung up.   *)
ActivateFails(e) ==
  /\ place[e] = "idle" /\ up[e] /\ ~rtp_session[e]
  /\ free_port(local_sdp_port[e])
  /\ up' = [up EXCEPT ![e] = FALSE]
  /\ loose' = (loose \/ local_sdp_port[e] # 0)
  /\ UNCHANGED <<port_lock, locals, place, local_sdp_port, adv_sdp_port, rtp_session>>

(* switch_core_media_recover_session: a call that is recovered comes with    *)
(* the port it had; the allocator is not asked.                              *)
Recover(e, p) ==
  /\ place[e] = "idle" /\ local_sdp_port[e] = 0
  /\ local_sdp_port' = [local_sdp_port EXCEPT ![e] = p]
  /\ adv_sdp_port' = [adv_sdp_port EXCEPT ![e] = TRUE]
  /\ loose' = TRUE
  /\ UNCHANGED <<alloc, port_lock, locals, place, rtp_session, up>>

(* switch_core_media_deactivate_rtp, when the media handle is destroyed:     *)
(* switch_rtp_destroy closes the socket of a session ...                     *)
CloseRtp(e) ==
  /\ place[e] = "idle"
  /\ rtp_session' = [rtp_session EXCEPT ![e] = FALSE]
  /\ place' = [place EXCEPT ![e] = "closed"]
  /\ UNCHANGED <<alloc, port_lock, locals, local_sdp_port, adv_sdp_port, up, loose>>

(* ... and releases the port; without a session the engine does.  The engine *)
(* then stands for one of a new call.                                        *)
DeactivateRtp(e) ==
  /\ place[e] = "closed"
  /\ free_port(local_sdp_port[e])
  /\ local_sdp_port' = [local_sdp_port EXCEPT ![e] = 0]
  /\ adv_sdp_port' = [adv_sdp_port EXCEPT ![e] = FALSE]
  /\ up' = [up EXCEPT ![e] = TRUE]
  /\ place' = [place EXCEPT ![e] = "idle"]
  /\ UNCHANGED <<port_lock, locals, rtp_session, loose>>

----------------------------------------------------------------------------
RequestStep(e) ==
  PickSlot(e) \/ NoPort(e) \/ WalkUp(e) \/ WalkedAll(e) \/ TakePort(e) \/ SetAside(e)

EngineStep(e) ==
  \/ \E force \in BOOLEAN : ChoosePort(e, force)
  \/ ActivateRtp(e) \/ ActivateFails(e) \/ CloseRtp(e) \/ DeactivateRtp(e)
  \/ \E p \in Recovered : Recover(e, p)

PortNext == \E e \in Engines : RequestPort(e) \/ RequestStep(e) \/ EngineStep(e)

PortSpec == PortInit /\ [][PortNext]_portVars

(* A thread that holds port_lock runs on; the mutex is not lost for ever by  *)
(* one thread among those that wait for it.  Calls need not come.            *)
PortFairSpec ==
  /\ PortSpec
  /\ \A e \in Engines : WF_portVars(RequestStep(e)) /\ SF_portVars(RequestPort(e))

----------------------------------------------------------------------------
(* The variables keep their types: a slot is in -4..1, and every walk of     *)
(* switch_core_port_allocator_request_port stays inside the table.           *)
PortTypeOK ==
  /\ track \in [Slots -> -4..1]
  /\ track_used \in Int
  /\ port_lock \in Engines \cup {NoEngine}
  /\ index \in Nat /\ tries \in 0..track_len
  /\ \A e \in Engines : place[e] = "walk" => index \in Slots
  /\ place \in [Engines -> {"idle", "request", "pick", "walk", "closed"}]
  /\ local_sdp_port \in [Engines -> {0} \cup {PortOf(i) : i \in Slots}]
  /\ adv_sdp_port \in [Engines -> BOOLEAN]
  /\ rtp_session \in [Engines -> BOOLEAN]
  /\ up \in [Engines -> BOOLEAN]
  /\ loose \in BOOLEAN

(* track_used counts the slots in use through every release, repeated        *)
(* release and request: were it too high, free ports would be refused; too   *)
(* low, a request with every slot taken would loop for ever under port_lock. *)
UsedIsCounted == track_used = Cardinality({i \in Slots : track[i] > 0})

(* No port is lost: a slot in use is the local_sdp_port of an engine that    *)
(* will release it, also after switch_rtp_new has failed.                   *)
NoPortLeak == \A i \in Slots : track[i] > 0 => \E e \in Engines : local_sdp_port[e] = PortOf(i)

(* Two open RTP sessions never have the same local port ...                  *)
PortsAreExclusive ==
  \A e, f \in Engines :
    (e # f /\ rtp_session[e] /\ rtp_session[f]) => local_sdp_port[e] # local_sdp_port[f]

(* ... as long as no switch_rtp_new has failed on a port and no call was     *)
(* recovered: until then the port an engine holds, except while it replaces  *)
(* it, is marked as used and is held by no other engine.                     *)
HeldIsExclusive ==
  ~loose =>
    \A e \in Engines : (local_sdp_port[e] # 0 /\ place[e] \in {"idle", "closed"}) =>
      /\ track[SlotOf(local_sdp_port[e])] = 1
      /\ \A f \in Engines \ {e} :
            place[f] \in {"idle", "closed"} => local_sdp_port[f] # local_sdp_port[e]

(* The allocator hands out ports of the configured range, and of the parity  *)
(* its flags ask for.                                                        *)
PortsAreAsked ==
  \A e \in Engines : local_sdp_port[e] # 0 =>
    /\ local_sdp_port[e] \in START_PORT..END_PORT
    /\ (even /\ ~odd) => local_sdp_port[e] % 2 = 0
    /\ (odd /\ ~even) => local_sdp_port[e] % 2 = 1

(* A request is under way while every port that is not in use fails the test *)
(* of request_port.                                                          *)
Stuck ==
  /\ port_lock # NoEngine
  /\ \E i \in Slots : track[i] <= 0
  /\ \A i \in Slots : track[i] <= 0 => ~test_port(PortOf(i))

(* switch_core_port_allocator_request_port returns, with a port or without   *)
(* one, so that port_lock is given up again ...                              *)
RequestReturns == \A e \in Engines : place[e] = "request" ~> place[e] = "idle"

(* ... unless, from some time on, nothing that is free can be had: the ports *)
(* are set aside and looked at again, whichever the random numbers are, and  *)
(* nobody else may keep a request from the one that can be had.              *)
RequestReturnsOrStuck == RequestReturns \/ <>[]Stuck
=============================================================================

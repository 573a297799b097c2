------------------------------ MODULE VirtioNet ------------------------------
(***************************************************************************)
(* The virtio-net data path (drivers/net/virtio_net.cpp) on a probed       *)
(* device: one receive and one transmit buffer, the interrupt handler, the *)
(* ARP cache it feeds (drivers/net/arp_cache.cpp) and the boot smoke test, *)
(* which runs in kernel_main while the handler interrupts it.  Frames are  *)
(* what the handler tells apart: an ARP packet with its sender, the reply  *)
(* to the probe, or anything else.                                         *)
(***************************************************************************)
EXTENDS Devices

CONSTANTS
    Ip,             \* addresses ARP packets are sent from
    TargetIp,       \* kProbeTargetIp
    MaxFrames       \* bound: frames the network delivers in a run

ASSUME VirtioNetAssumption == TargetIp \in Ip /\ MaxFrames \in Nat

VARIABLES
    rx,         \* rx_buffer.state and the receive queue
    tx,         \* tx_inflight, tx_completed and the transmit queue
    seen,       \* smoke_rx_seen
    arp,        \* addresses in g_virtio_net_arp_cache
    insertFailed,   \* an upsert has found no memory for a new entry
    frames,     \* frames delivered so far
    smoke       \* where run_virtio_net_smoke is

network == <<rx, tx, seen, arp, insertFailed, frames, smoke>>

\* A frame: [arp |-> FALSE] or an ARP packet; reply: is_probe_arp_reply holds.
Frame == {[arp |-> FALSE, ip |-> TargetIp, reply |-> FALSE]}
         \cup [arp : {TRUE}, ip : Ip, reply : {FALSE}]
         \cup {[arp |-> TRUE, ip |-> TargetIp, reply |-> TRUE]}

NetInit ==
    /\ rx = [submitted |-> FALSE, avail |-> 0, used |-> <<>>]
    /\ tx = [inflight |-> FALSE, completed |-> FALSE, avail |-> 0, used |-> 0]
    /\ seen = FALSE /\ arp = {} /\ insertFailed = FALSE /\ frames = 0 /\ smoke = "idle"

\* g_virtio_net: the device its probe has reached.
Net == {d \in Dev : pci[d].kind = "virtio-net" /\ dev[d].pages = BufferSet("virtio-net")}
NetLive == {d \in Dev : pci[d].kind = "virtio-net" /\ dev[d].live}
NetPresent == \E d \in Dev : pci[d].kind = "virtio-net" /\ dev[d].present

\* submit_rx_buffer: nothing to do when the device has the buffer already.
Resubmitted(r) ==
    IF r.submitted THEN r ELSE [r EXCEPT !.submitted = TRUE, !.avail = @ + 1]

-----------------------------------------------------------------------------
(* The device *)

\* A frame arrives and the device fills the receive buffer.
Receive ==
    /\ NetLive # {} /\ rx.avail > 0 /\ frames < MaxFrames
    /\ \E f \in Frame : rx' = [rx EXCEPT !.avail = @ - 1, !.used = Append(@, f)]
    /\ frames' = frames + 1
    /\ UNCHANGED <<tx, seen, arp, insertFailed, smoke>>

\* The device has sent the frame of the transmit buffer.
Transmit ==
    /\ NetLive # {} /\ tx.avail > 0
    /\ tx' = [tx EXCEPT !.avail = @ - 1, !.used = @ + 1]
    /\ UNCHANGED <<rx, seen, arp, insertFailed, frames, smoke>>

\* The vector the device interrupts on reaches virtio_net_irq.
NetIrqDelivered ==
    \E d \in Net : \E v \in {dev[d].msg, dev[d].line} \ {Nobody} : handler[v] = d

\* ArpCache::clear, ArpCache::lookup
Cleared == {}
Known(ip) == ip \in arp

\* What the handler makes of a received ARP packet: upsert, then the smoke flag.
Cached(f, stored) == IF stored THEN arp \cup {f.ip} ELSE arp
Seen(f) == seen \/ f.reply

\* virtio_net_irq: the received frame, then the sent one.  The buffer is returned
\* to the device before the handler is done; a next frame is another interrupt.
NetIrq ==
    /\ NetIrqDelivered /\ (rx.used # <<>> \/ tx.used > 0)
    /\ IF rx.used = <<>> THEN UNCHANGED <<rx, seen, arp, insertFailed>>
       ELSE LET f == Head(rx.used) IN
            /\ rx' = Resubmitted([rx EXCEPT !.submitted = FALSE, !.used = Tail(@)])
            /\ IF f.arp
               THEN \E stored \in {TRUE, f.ip \in arp} :
                       /\ arp' = Cached(f, stored) /\ seen' = Seen(f)
                       /\ insertFailed' = (insertFailed \/ ~stored)
               ELSE UNCHANGED <<arp, seen, insertFailed>>
    /\ tx' = IF tx.used = 0 THEN tx
             ELSE [tx EXCEPT !.used = 0, !.inflight = FALSE, !.completed = TRUE]
    /\ UNCHANGED <<frames, smoke>>

-----------------------------------------------------------------------------
(* The driver: the last steps of probe_virtio_net_device, and the smoke test *)

\* submit_rx_buffer in the probe, before DRIVER_OK.
NetStart == rx' = Resubmitted(rx) /\ UNCHANGED <<tx, seen, arp, insertFailed, frames, smoke>>

\* remove_virtio_net_device: the driver's state is cleared; the device is not reset
\* and keeps the descriptors it was given.
NetRemoved ==
    /\ rx' = [rx EXCEPT !.submitted = FALSE]
    /\ tx' = [tx EXCEPT !.inflight = FALSE, !.completed = FALSE]
    /\ arp' = Cleared /\ seen' = FALSE
    /\ UNCHANGED <<insertFailed, frames, smoke>>

\* run_virtio_net_smoke starts: no device, no test.
SmokeBegin ==
    /\ smoke = "idle"
    /\ IF NetPresent THEN smoke' = "clear" /\ rx' = Resubmitted(rx)
                     ELSE smoke' = "ok" /\ UNCHANGED rx
    /\ UNCHANGED <<tx, seen, arp, insertFailed, frames>>

\* Mutant: the flag is reset before the cache is cleared.
SmokeReset_FlagFirst ==
    \/ /\ smoke = "clear" /\ seen' = FALSE /\ smoke' = "flag" /\ UNCHANGED arp
    \/ /\ smoke = "flag" /\ arp' = Cleared /\ smoke' = "probe" /\ UNCHANGED seen

\* g_virtio_net_arp_cache.clear(), then smoke_rx_seen = false.
SmokeReset ==
    \/ /\ smoke = "clear" /\ arp' = Cleared /\ smoke' = "flag" /\ UNCHANGED seen
    \/ /\ smoke = "flag" /\ seen' = FALSE /\ smoke' = "probe" /\ UNCHANGED arp

\* submit_arp_probe: refused while a frame is in flight.
SmokeProbe ==
    /\ smoke = "probe"
    /\ IF tx.inflight THEN smoke' = "failed" /\ UNCHANGED tx
       ELSE /\ tx' = [tx EXCEPT !.completed = FALSE, !.inflight = TRUE, !.avail = @ + 1]
            /\ smoke' = "wait_tx"

\* wait_for_flag(tx_completed), wait_for_flag(smoke_rx_seen): bounded spins.
SmokeWait ==
    \/ /\ smoke = "wait_tx"
       /\ \/ tx.completed /\ smoke' = "wait_rx" /\ UNCHANGED tx
          \/ ~tx.completed /\ smoke' = "failed" /\ tx' = [tx EXCEPT !.inflight = FALSE]
    \/ /\ smoke = "wait_rx" /\ smoke' = (IF seen THEN "lookup" ELSE "failed")
       /\ UNCHANGED tx

\* The target must be in the cache now.
SmokeLookup ==
    /\ smoke = "lookup" /\ smoke' = (IF Known(TargetIp) THEN "ok" ELSE "failed")

SmokeStep ==
    \/ SmokeReset /\ UNCHANGED <<rx, tx, insertFailed, frames>>
    \/ SmokeProbe /\ UNCHANGED <<rx, seen, arp, insertFailed, frames>>
    \/ SmokeWait /\ UNCHANGED <<rx, seen, arp, insertFailed, frames>>
    \/ SmokeLookup /\ UNCHANGED <<rx, tx, seen, arp, insertFailed, frames>>

=============================================================================

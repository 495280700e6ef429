------------------------------ MODULE Traffic ------------------------------
(***************************************************************************)
(* TrafficCounter of redog-tunnel/src/statistics.rs: four atomics, added   *)
(* to by finished relays and read by snapshot(), which GET /traffic and    *)
(* GET /connections (redog-api/src/server.rs) both call, from any worker   *)
(* thread.  snapshot() is two loads and two swaps, one action each.        *)
(* Tunnel says when relays add; TSpec lets them add whenever they like.    *)
(***************************************************************************)
EXTENDS Integers

CONSTANTS Pollers,  \* API requests that take snapshots, each again and again
          Bytes     \* sizes a relay can add; u64::MAX bytes are never reached

ASSUME TrafficAssumption == Bytes \subseteq Nat

VARIABLES upload_total, download_total, last_upload, last_download,
          snap,       \* progress of each poller's snapshot()
          repUp,      \* history: sum of all upload_speed values answered
          repDown,    \* history: sum of all download_speed values answered
          overlapped  \* history: two snapshots have overlapped in time

counters == <<upload_total, download_total, last_upload, last_download>>
tvars == <<counters, snap, repUp, repDown, overlapped>>

\* pc is the next atomic operation; up and down are the values loaded.
Idle == [pc |-> "idle", up |-> 0, down |-> 0]

TInit == /\ upload_total = 0 /\ download_total = 0
         /\ last_upload = 0 /\ last_download = 0
         /\ snap = [p \in Pollers |-> Idle]
         /\ repUp = 0 /\ repDown = 0
         /\ overlapped = FALSE

\* u64::saturating_sub
SatSub(a, b) == IF a > b THEN a - b ELSE 0

AddUpload(n) == /\ upload_total' = upload_total + n
                /\ UNCHANGED <<download_total, last_upload, last_download, snap,
                               repUp, repDown, overlapped>>

AddDownload(n) == /\ download_total' = download_total + n
                  /\ UNCHANGED <<upload_total, last_upload, last_download, snap,
                                 repUp, repDown, overlapped>>

\* Mutant: last_upload is refreshed from a second load instead of the value
\* the speed was computed from.
SwapUpload_Reloads(p) ==
    /\ snap[p].pc = "swapUp"
    /\ last_upload' = upload_total
    /\ repUp' = repUp + SatSub(snap[p].up, last_upload)
    /\ snap' = [snap EXCEPT ![p].pc = "swapDown"]
    /\ UNCHANGED <<upload_total, download_total, last_download, repDown, overlapped>>

\* Mutant: the swap is forgotten and last_download keeps its old value.
SwapDownload_NoSwap(p) ==
    /\ snap[p].pc = "swapDown"
    /\ repDown' = repDown + SatSub(snap[p].down, last_download)
    /\ snap' = [snap EXCEPT ![p] = Idle]
    /\ UNCHANGED <<upload_total, download_total, last_upload, last_download,
                   repUp, overlapped>>

\* upload_total.load(): the snapshot begins.
LoadUpload(p) ==
    /\ snap[p].pc = "idle"
    /\ snap' = [snap EXCEPT ![p] = [pc |-> "down", up |-> upload_total, down |-> 0]]
    /\ overlapped' = (overlapped \/ \E q \in Pollers \ {p} : snap[q].pc # "idle")
    /\ UNCHANGED <<counters, repUp, repDown>>

LoadDownload(p) ==
    /\ snap[p].pc = "down"
    /\ snap' = [snap EXCEPT ![p].pc = "swapUp", ![p].down = download_total]
    /\ UNCHANGED <<counters, repUp, repDown, overlapped>>

\* last_upload.swap(upload): fixes this snapshot's upload_speed.
SwapUpload(p) ==
    /\ snap[p].pc = "swapUp"
    /\ last_upload' = snap[p].up
    /\ repUp' = repUp + SatSub(snap[p].up, last_upload)
    /\ snap' = [snap EXCEPT ![p].pc = "swapDown"]
    /\ UNCHANGED <<upload_total, download_total, last_download, repDown, overlapped>>

\* last_download.swap(download); the answer is complete.
SwapDownload(p) ==
    /\ snap[p].pc = "swapDown"
    /\ last_download' = snap[p].down
    /\ repDown' = repDown + SatSub(snap[p].down, last_download)
    /\ snap' = [snap EXCEPT ![p] = Idle]
    /\ UNCHANGED <<upload_total, download_total, last_upload, repUp, overlapped>>

Snapshot(p) == LoadUpload(p) \/ LoadDownload(p) \/ SwapUpload(p) \/ SwapDownload(p)

TNext == \/ \E n \in Bytes : AddUpload(n) \/ AddDownload(n)
         \/ \E p \in Pollers : Snapshot(p)

TSpec == TInit /\ [][TNext]_tvars

-----------------------------------------------------------------------------
(* Properties *)

\* Shape of the state.
TrafficTypeOK ==
    /\ upload_total \in Nat /\ download_total \in Nat
    /\ last_upload \in Nat /\ last_download \in Nat
    /\ snap \in [Pollers -> [pc : {"idle", "down", "swapUp", "swapDown"},
                             up : Nat, down : Nat]]
    /\ repUp \in Nat /\ repDown \in Nat
    /\ overlapped \in BOOLEAN

\* However snapshots interleave, every byte below the last swapped value has
\* been part of some answered speed (it may be part of two, never of none),
\* and no value ever runs ahead of the totals.
NoByteUnreported ==
    /\ last_upload <= repUp /\ last_download <= repDown
    /\ last_upload <= upload_total /\ last_download <= download_total
    /\ \A p \in Pollers : snap[p].up <= upload_total /\ snap[p].down <= download_total

\* As long as no two snapshots overlap, every byte is answered exactly once.
SequentialIsExact ==
    ~overlapped => repUp = last_upload /\ repDown = last_download
=============================================================================

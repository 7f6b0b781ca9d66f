------------------------------ MODULE Sampling ------------------------------
(***************************************************************************)
(* One torrent's readings: sampleLoop's ticker, refresh, and the reading   *)
(* addSpec takes through upsertLocked (torrentState.update and sample).    *)
(* Either takes one only of a torrent whose metadata is known, so it is    *)
(* usually a tick, which may be late, that takes a magnet's first.         *)
(*                                                                         *)
(* A reading pairs a timestamp with the bytes found when mu was obtained.  *)
(* refresh's timestamp is the one the ticker put in its one-slot channel,  *)
(* which can be older than a reading addSpec takes while the sampler waits *)
(* for mu.  Times are counted in fractions of SampleInterval; a rate is    *)
(* kept as the pair (bytes gained, time spanned) it is the quotient of,    *)
(* and Percent in hundredths, as percent() truncates it.  The parts of the *)
(* specification are named for it, so that it can be read with RenderLoop. *)
(***************************************************************************)
EXTENDS Clock

CONSTANTS
  Size,       \* bytes of the torrent
  Bytes       \* the byte counts a reading can find

ASSUME SamplingAssumption ==
  /\ Interval \in Nat \ {0} /\ MaxTime \in Nat \ {0}
  /\ Size \in Nat /\ Bytes \subseteq 0..Size /\ {0, Size} \subseteq Bytes

VARIABLES
  tick,       \* timestamp in the ticker's channel, or None
  due,        \* timestamp the sampler took and has not refreshed with yet, or None
  torrent,    \* what the engine and its client have of it, one of Stage
  bytes,      \* tt.BytesCompleted()
  updatedAt, Downloaded, Percent,
  rate        \* DownloadRate

reading == <<updatedAt, Downloaded, Percent, rate>>
samplingVars == <<now, tick, due, torrent, bytes, reading>>

(* No record; a record alone; held without metadata; held with it. *)
Stage == {"none", "stopped", "resolving", "loaded"}

NoRate == [db |-> 0, dt |-> 1]

SamplingTypeOK ==
  /\ now \in 1..MaxTime
  /\ tick \in 0..now /\ due \in 0..now
  /\ torrent \in Stage
  /\ bytes \in Bytes
  /\ updatedAt \in 0..now
  /\ Downloaded \in Bytes
  /\ Percent \in Nat /\ Percent <= 10000
  /\ rate \in [db : Int, dt : Int]

SamplingInit ==
  /\ now = 1 /\ tick = None /\ due = None
  /\ torrent = "none" /\ bytes = 0
  /\ updatedAt = None /\ Downloaded = 0 /\ Percent = 0 /\ rate = NoRate

(* Mutant: rounds to the nearest hundredth. *)
percentNearest(n, total) ==
  IF total = 0 THEN 0 ELSE (n * 10000 + total \div 2) \div total

percent(n, total) == IF total = 0 THEN 0 ELSE (n * 10000) \div total

(* Mutant: a reading at the very moment of the last one counts. *)
notBehind(at) == at >= updatedAt

(* Mutant: only a reading at the very moment of the last one is ignored. *)
differs(at) == at # updatedAt

advances(at) == at > updatedAt

(* sample(b, at): the first reading only sets the mark; a reading that does *)
(* not advance the clock changes nothing but Percent.                       *)
sample(b, at) ==
  /\ Percent' = percent(b, Size)
  /\ \/ /\ updatedAt = None
        /\ Downloaded' = b /\ updatedAt' = at
        /\ UNCHANGED rate
     \/ /\ updatedAt # None /\ ~advances(at)
        /\ UNCHANGED <<Downloaded, updatedAt, rate>>
     \/ /\ updatedAt # None /\ advances(at)
        /\ rate' = IF b >= Downloaded
                   THEN [db |-> b - Downloaded, dt |-> at - updatedAt] ELSE NoRate
        /\ Downloaded' = b /\ updatedAt' = at

(* updateLoaded's part of update: no metadata, no reading. *)
update(b, at) == IF torrent' = "loaded" THEN sample(b, at) ELSE UNCHANGED reading

(* Time passes; the ticker drops a tick nobody has taken room for. *)
SamplingAdvance ==
  /\ now < MaxTime
  /\ now' = now + 1
  /\ tick' = IF now' % Interval = 0 /\ tick = None THEN now' ELSE tick
  /\ UNCHANGED <<due, torrent, bytes, reading>>

(* sampleLoop receives the tick; it then waits for mu. *)
TakeTick ==
  /\ tick # None /\ due = None
  /\ due' = tick /\ tick' = None
  /\ UNCHANGED <<now, torrent, bytes, reading>>

refresh ==
  /\ due # None
  /\ due' = None
  /\ UNCHANGED <<now, tick, torrent, bytes>>
  /\ update(bytes, due)

(* External: the metadata of a magnet arrives. *)
GotInfo ==
  /\ torrent = "resolving"
  /\ torrent' = "loaded" /\ bytes' \in Bytes
  /\ UNCHANGED <<now, tick, due, reading>>

(* External: pieces arrive. *)
Receive ==
  /\ torrent = "loaded"
  /\ bytes' \in {b \in Bytes : b > bytes}
  /\ UNCHANGED <<now, tick, due, torrent, reading>>

(* External: AddTorrentSpec of a .torrent, or of a magnet whose metadata will  *)
(* take its time.  A torrent held with its metadata keeps it and its bytes; as *)
(* metadata becomes known, so do the bytes the client has verified so far.     *)
AddTorrentSpec ==
  \/ torrent' = "loaded" /\ bytes' \in IF torrent = "loaded" THEN {bytes} ELSE Bytes
  \/ torrent # "loaded" /\ torrent' = "resolving" /\ UNCHANGED bytes

addSpec ==
  /\ AddTorrentSpec
  /\ update(bytes', now)
  /\ UNCHANGED <<now, tick, due>>

(* StopTorrent drops the torrent; the record keeps its last reading. *)
StopTorrent ==
  /\ torrent \in {"resolving", "loaded"}
  /\ torrent' = "stopped" /\ bytes' = 0
  /\ UNCHANGED <<now, tick, due, reading>>

(* StartTorrent re-adds a stopped torrent without taking a reading. *)
StartTorrent ==
  /\ torrent = "stopped"
  /\ AddTorrentSpec
  /\ UNCHANGED <<now, tick, due, reading>>

(* DeleteTorrent: the record goes, and its readings with it. *)
DeleteTorrent ==
  /\ torrent # "none"
  /\ torrent' = "none" /\ bytes' = 0
  /\ updatedAt' = None /\ Downloaded' = 0 /\ Percent' = 0 /\ rate' = NoRate
  /\ UNCHANGED <<now, tick, due>>

SamplingNext ==
  \/ SamplingAdvance \/ TakeTick \/ refresh
  \/ GotInfo \/ Receive
  \/ addSpec \/ StopTorrent \/ StartTorrent \/ DeleteTorrent

SamplingSpec == SamplingInit /\ [][SamplingNext]_samplingVars

-----------------------------------------------------------------------------
(* The rate is always a finite, non-negative number: it is never derived from a span *)
(* that is empty or negative, which json.Marshal could not encode (sample).          *)
RateIsFinite == rate.dt > 0 /\ rate.db >= 0

(* "Downloaded, updatedAt and DownloadRate are one sample: they move together or not *)
(* at all", and a late tick never turns the mark back, whoever takes the first reading *)
(* and for as long as the torrent is not deleted (sample, addSpec, refresh).           *)
OneSample ==
  [][torrent' # "none" =>
       /\ updatedAt' >= updatedAt
       /\ updatedAt' = updatedAt => Downloaded' = Downloaded /\ rate' = rate]_samplingVars

(* A torrent is shown as complete (100.00%) only for a reading that found every byte *)
(* (percent truncates; newTorrentView's Complete compares with 100).                 *)
CompleteIsComplete ==
  [][Percent' = 10000 /\ Percent # 10000 => bytes' = Size]_samplingVars
=============================================================================

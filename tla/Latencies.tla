------------------------------- MODULE Latencies -------------------------------
(***************************************************************************)
(* get_latencies: from the time a memory probe takes at each of a list of  *)
(* distances, the windows of distances that take the same time, and that   *)
(* time: one window for each cache of the machine and one for its memory.  *)
(***************************************************************************)
EXTENDS Integers, Sequences, SequencesExt

CONSTANTS
  MaxUnsigned,  \* the largest unsigned int: above every distance
  PerNano       \* how many units of a latency make a nanosecond

ASSUME PerNanoAssumption == PerNano \in Nat \ {0}

min_streak == 4

Probe(dist, latency) == [dist |-> dist, latency |-> latency]
Plateau(start, end, latency) == [start |-> start, end |-> end, latency |-> latency]

-------------------------------------------------------------------------------
(* find_plateaus.  A streak is the latencies of consecutive probes, none   *)
(* a tenth above its middle one; the first probe is in it twice.           *)
Median(streak) == streak[Len(streak) \div 2 + 1]
EndsStreak(streak, latency) == 10 * latency > 11 * Median(streak)

Scan(s, probe) ==
  IF EndsStreak(s.streak, probe.latency)
  THEN [plateaus |-> IF Len(s.streak) >= min_streak
                     THEN Append(s.plateaus, Plateau(s.start, s.penultimate, Median(s.streak)))
                     ELSE s.plateaus,
        start |-> probe.dist, penultimate |-> probe.dist, streak |-> <<probe.latency>>]
  ELSE [s EXCEPT !.streak = Append(@, probe.latency), !.penultimate = probe.dist]

find_plateaus(probes) ==
  LET first == Head(probes)
      end == FoldLeft(Scan, [plateaus |-> <<>>, start |-> first.dist, penultimate |-> first.dist,
                             streak |-> <<first.latency>>], probes)
  IN  IF Len(end.streak) > min_streak
      THEN Append(end.plateaus, Plateau(end.start, Last(probes).dist, Median(end.streak)))
      ELSE end.plateaus

-------------------------------------------------------------------------------
(* interpolate, on the probes: those between two plateaus join the one     *)
(* whose latency is nearer, in whole nanoseconds; cur is the plateau the   *)
(* walk is in.                                                             *)
Away(x, y) == IF x < y THEN y - x ELSE x - y
NanosAway(x, y) == Away(x, y) \div PerNano

(* The plateau before ends, and the next one starts, at dist. *)
Join(s, dist) ==
  [s EXCEPT !.plateaus = [[@ EXCEPT ![s.cur].end = dist] EXCEPT ![s.cur + 1].start = dist],
            !.cur = @ + 1]
JoinNearest(s, probe) ==
  LET cur == s.plateaus[s.cur]  next == s.plateaus[s.cur + 1]
  IN  IF probe.dist <= cur.end THEN s
      ELSE IF probe.dist = next.end THEN Join(s, cur.end)
      ELSE IF NanosAway(probe.latency, cur.latency) > NanosAway(probe.latency, next.latency)
      THEN Join(s, s.penultimate)
      ELSE s
CloseGap(s, probe) == [JoinNearest(s, probe) EXCEPT !.penultimate = probe.dist]

close_gaps(plateaus, probes) ==
  FoldLeft(CloseGap,
           [plateaus |-> [plateaus EXCEPT ![Len(plateaus)].end = Last(probes).dist],
            cur |-> 1, penultimate |-> Head(probes).dist], probes).plateaus

(* interpolate, alone: a boundary moves to the nearest of a power of two,  *)
(* its half and its three quarters, the first of these if two are as near. *)
closest_p2(v) ==
  IF v = 0 THEN 0 ELSE 2 ^ (CHOOSE k \in 0 .. v : 2^k >= v /\ (k = 0 \/ 2^(k - 1) < v))
closest(s, e) ==
  LET mid == (s + e) \div 2
      next == closest_p2(mid)
      candidates == <<next, next \div 2, (next \div 4) * 3>>
      first == CHOOSE k \in 1 .. 3 :
                 \A c \in 1 .. 3 : /\ Away(candidates[k], mid) <= Away(candidates[c], mid)
                                   /\ c < k => Away(candidates[k], mid) < Away(candidates[c], mid)
  IN  candidates[first]

(* Starts are not read again. *)
interpolate(plateaus) ==
  [k \in DOMAIN plateaus |->
    IF k = Len(plateaus) THEN plateaus[k]
    ELSE [plateaus[k] EXCEPT !.end = closest(plateaus[k].end, plateaus[k + 1].start)]]

-------------------------------------------------------------------------------
(* fuse: a window is merged with the next one when that is not half again  *)
(* as slow; the merged one is not compared again.                          *)
Window(dist, latency) == [dist |-> dist, latency |-> latency]
AsFast(w, next) == 2 * next.latency <= 3 * w.latency

FuseKeepingSecond(windows) ==                                           \* mutant
  LET f[k \in 1 .. (Len(windows) + 1)] ==
        IF k >= Len(windows) THEN SubSeq(windows, k, Len(windows))
        ELSE IF AsFast(windows[k], windows[k + 1]) THEN <<windows[k + 1]>> \o f[k + 2]
        ELSE <<windows[k]>> \o f[k + 1]
  IN  f[1]
fuse(windows) ==
  LET f[k \in 1 .. (Len(windows) + 1)] ==
        IF k >= Len(windows) THEN SubSeq(windows, k, Len(windows))
        ELSE IF AsFast(windows[k], windows[k + 1])
        THEN <<Window(windows[k + 1].dist, windows[k].latency)>> \o f[k + 2]
        ELSE <<windows[k]>> \o f[k + 1]
  IN  f[1]

memory_access_times(probes) ==
  LET plateaus == interpolate(close_gaps(find_plateaus(probes), probes))
      End(k) == IF k = Len(plateaus) THEN MaxUnsigned ELSE plateaus[k].end
  IN  fuse([k \in DOMAIN plateaus |-> Window(End(k), plateaus[k].latency)])
===============================================================================

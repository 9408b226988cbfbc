------------------------------ MODULE GraphCache ------------------------------
(***************************************************************************)
(* caching_fsg_gen and cached_fsg_gen: the first parse writes the length   *)
(* of each match it asks its generator for in a stream per level; later    *)
(* parses read the streams instead of generating, and name a distance of   *)
(* the right class instead of the right distance.  A length is written as  *)
(* its difference from one less than the length of the position before,    *)
(* or as it is when generate_edges skipped the level at that position.     *)
(***************************************************************************)
EXTENDS EdgeMesh

CONSTANTS
  CacheTexts,   \* the texts parsed
  MaxUnary      \* unary_info::max_unary, the largest value written in unary

ASSUME CacheTextsAssumption == \A t \in CacheTexts : Len(t) \in Nat \ {0}
ASSUME MaxUnaryAssumption == MaxUnary \in Nat

VARIABLES
  text,
  pc,           \* where the first parse, then the second one, is
  i,            \* text_pos
  streams,      \* cached_graph: what is written and not read yet, for each level
  prev,         \* prev_len and prev_pos of each level
  cur_dst_idx,  \* of cached_fsg_gen
  nlevels, level, mesh,   \* of generate_edges
  graph,        \* lengths and costs of the edges the first parse was given
  cached        \* the edges the second parse was given, for each position

edges == <<nlevels, level, mesh>>
caching == <<streams, prev, cur_dst_idx, graph, cached>>

L == Len(text)

(* As many levels as classes start before the end of the text, and one. *)
NLevels == 1 + LowerBound(Dst, L)

(* unary_gammalike: a value is a code word, of one of two forms. *)
Encode(value) == IF value <= MaxUnary THEN [escaped |-> FALSE, n |-> value]
                 ELSE [escaped |-> TRUE, n |-> value - MaxUnary]
DecodeUnaryOnly(code) == code.n                                         \* mutant
Decode(code) == IF code.escaped THEN MaxUnary + code.n ELSE code.n

(* A stream for each level, with nothing written. *)
NoStreams == [k \in 1 .. NLevels |-> <<>>]
NoPrev == [k \in 1 .. NLevels |-> [len |-> 1, pos |-> -1]]

(* text_pos() - 1 is unsigned: no level has a previous match at 0. *)
Follows(k) == i > 0 /\ prev[k].pos = i - 1
Inherited(k) == IF prev[k].len > 0 THEN prev[k].len - 1 ELSE 0
Base(k) == IF Follows(k) THEN Inherited(k) ELSE 0
Remember(k, ell) == prev' = [prev EXCEPT ![k] = [len |-> ell, pos |-> i]]

Init ==
  /\ text \in CacheTexts
  /\ pc = "caching" /\ i = 0
  /\ streams = NoStreams /\ prev = NoPrev
  /\ cur_dst_idx = 0
  /\ nlevels = Levels(0) /\ level = 0 /\ mesh = Reset
  /\ graph = <<>> /\ cached = <<>>

Priced(es) == [k \in DOMAIN es |-> [ell |-> es[k].ell, cost_id |-> es[k].cost_id]]

MoreLevels == ~ mesh.stopped /\ level < nlevels

(* max_match of caching_fsg_gen, and the turn of generate_edges around it. *)
WriteLength ==
  /\ pc = "caching" /\ i < L /\ MoreLevels
  /\ \E match \in MaxMatch(text, i, level + 1) :
       /\ streams' = [streams EXCEPT ![level + 1] = Append(@, Encode(match.ell - Base(level + 1)))]
       /\ Remember(level + 1, match.ell)
       /\ mesh' = Level(mesh, match)
  /\ level' = level + 1
  /\ UNCHANGED <<text, pc, i, cur_dst_idx, nlevels, graph, cached>>

(* post_gen, and the levels of the next position. *)
EndOfCached ==
  /\ pc = "caching" /\ i < L /\ ~ MoreLevels
  /\ graph' = Append(graph, Priced(mesh.edges))
  /\ i' = i + 1
  /\ nlevels' = Levels(i + 1) /\ level' = 0 /\ mesh' = Reset
  /\ UNCHANGED <<text, pc, streams, prev, cur_dst_idx, cached>>

(* A cached_fsg_gen starts on the streams. *)
Rewind ==
  /\ pc = "caching" /\ i = L
  /\ pc' = "levels" /\ i' = 0 /\ prev' = NoPrev /\ cur_dst_idx' = 0
  /\ UNCHANGED <<text, streams, edges, graph, cached>>

(* levels of cached_fsg_gen *)
CountLevels ==
  /\ pc = "levels" /\ i < L
  /\ cur_dst_idx' = IF cur_dst_idx < Len(Dst) - 1 /\ Dst[cur_dst_idx + 1] < i
                    THEN cur_dst_idx + 1 ELSE cur_dst_idx
  /\ nlevels' = 1 + cur_dst_idx' /\ level' = 0 /\ mesh' = Reset
  /\ pc' = "cached"
  /\ UNCHANGED <<text, i, streams, prev, graph, cached>>

(* The distance that stands for those of its class. *)
Representative(k) == IF k = 1 THEN 1 ELSE Dst[k - 1] + 1

(* max_match of cached_fsg_gen; there is no step without a code to read.   *)
ReadLength ==
  /\ pc = "cached" /\ MoreLevels /\ streams[level + 1] # <<>>
  /\ LET ell == Decode(Head(streams[level + 1])) + Base(level + 1)
     IN  /\ Remember(level + 1, ell)
         /\ mesh' = Level(mesh, [d |-> Representative(level + 1), ell |-> ell])
  /\ streams' = [streams EXCEPT ![level + 1] = Tail(@)]
  /\ level' = level + 1
  /\ UNCHANGED <<text, pc, i, cur_dst_idx, nlevels, graph, cached>>

(* post_gen *)
EndOfRead ==
  /\ pc = "cached" /\ ~ MoreLevels
  /\ cached' = Append(cached, mesh.edges)
  /\ i' = i + 1 /\ pc' = "levels"
  /\ UNCHANGED <<text, streams, prev, cur_dst_idx, edges, graph>>

CacheNext == WriteLength \/ EndOfCached \/ Rewind \/ CountLevels \/ ReadLength \/ EndOfRead

-------------------------------------------------------------------------------
(* Properties.                                                             *)

(* A later parse is given, at each position, edges of the lengths and      *)
(* costs the first one was given, at distances inside the text that price  *)
(* as the matches they stand for; when it is over, no level has anything   *)
(* left to read.                                                           *)
SameGraph ==
  pc = "levels" =>
    /\ i > 0 => /\ Priced(mesh.edges) = graph[i]
                /\ \A k \in DOMAIN mesh.edges :
                     LET e == mesh.edges[k] IN e.d <= i - 1 /\ e.cost_id = GetId(e.d, e.ell)
    /\ i = L => \A k \in DOMAIN streams : streams[k] = <<>>
===============================================================================

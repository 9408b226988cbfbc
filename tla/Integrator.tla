------------------------------ MODULE Integrator ------------------------------
(***************************************************************************)
(* A session on one text: the parse that writes the graph cache, one that  *)
(* reads it, and solution_integrator::integrate.  Parsings found on the    *)
(* cached graph name a distance of the right class for each copy; the text *)
(* is generated once more, for all of them together, and each copy takes   *)
(* the distance of an edge of its length.  Positions where no parsing has  *)
(* a phrase are generated and thrown away; a parsing waits where its next  *)
(* phrase starts.                                                          *)
(***************************************************************************)
EXTENDS GraphCache

CONSTANTS
  Parsings,     \* how many parsings of the text integrate is given
  LongestRun    \* bound of the model: the longest literal run of a parsing

ASSUME ParsingsAssumption == Parsings \in Nat \ {0} /\ LongestRun \in Nat \ {0}

VARIABLES       \* i is now the position generated next, or being fixed
  lowest_pos,   \* the first position where a parsing has a phrase to fix
  next,         \* where the next phrase of each parsing starts
  s,            \* the parsing looked at
  maxedges,     \* the whole vector, what is left of earlier positions included
  fixed         \* the last phrase read and the one pushed for it

integrating == <<lowest_pos, next, s, maxedges, fixed>>
vars == <<text, pc, i, caching, edges, integrating>>

Sols == 1 .. Parsings

Invalid == [d |-> L + 1, ell |-> L + 1, cost_id |-> L + 1]   \* edge_t()
NoPhrase == [in |-> [d |-> 0, ell |-> 0], out |-> [d |-> 0, ell |-> 0]]

(* The copies a parsing may have at n are those the cached graph has.      *)
CachedEdges(n) == ToSet(cached[n + 1])

InitSession ==
  /\ Init
  /\ lowest_pos = 0 /\ s = 1
  /\ next = [n \in Sols |-> 0]
  /\ maxedges = [k \in 1 .. MaxLevels |-> Invalid]
  /\ fixed = NoPhrase

CacheStep == CacheNext /\ UNCHANGED integrating

(* The parsings are whole; a new generator starts on the text.             *)
StartIntegration ==
  /\ pc = "levels" /\ i = L
  /\ i' = 0 /\ pc' = "generate"
  /\ UNCHANGED <<text, caching, edges, integrating>>

(* gen_next starts on position i. *)
StartEdges ==
  /\ pc = "generate" /\ lowest_pos < L
  /\ nlevels' = Levels(i) /\ level' = 0 /\ mesh' = Reset
  /\ pc' = "generating"
  /\ UNCHANGED <<text, i, caching, integrating>>

(* A turn of generate_edges: the edges it adds overwrite the first ones. *)
NextLevel ==
  /\ pc = "generating" /\ MoreLevels
  /\ \E match \in MaxMatch(text, i, level + 1) : mesh' = Level(mesh, match)
  /\ level' = level + 1
  /\ maxedges' = [k \in 1 .. MaxLevels |->
                    IF k <= Len(mesh'.edges) THEN mesh'.edges[k] ELSE maxedges[k]]
  /\ UNCHANGED <<text, pc, i, caching, nlevels, lowest_pos, next, s, fixed>>

(* The loop over to_skip goes on: the edges of this position are not used. *)
SkipPosition ==
  /\ pc = "generating" /\ ~ MoreLevels /\ i < lowest_pos
  /\ i' = i + 1 /\ pc' = "generate"
  /\ UNCHANGED <<text, caching, edges, integrating>>

StartFixing ==
  /\ pc = "generating" /\ ~ MoreLevels /\ i >= lowest_pos
  /\ s' = 1 /\ pc' = "fix"
  /\ UNCHANGED <<text, i, caching, edges, maxedges, lowest_pos, next, fixed>>

PassBy ==
  /\ pc = "fix" /\ s \in Sols /\ next[s] # i
  /\ s' = s + 1
  /\ UNCHANGED <<text, pc, i, caching, edges, maxedges, lowest_pos, next, fixed>>

Push(phrase, e) ==
  /\ fixed' = [in |-> phrase, out |-> e]
  /\ next' = [next EXCEPT ![s] = @ + phrase.ell]
  /\ s' = s + 1
  /\ UNCHANGED <<text, pc, i, caching, edges, maxedges, lowest_pos>>

PushLiteral ==
  /\ pc = "fix" /\ s \in Sols /\ next[s] = i
  /\ \E ell \in 1 .. LongestRun :
       /\ i + ell <= L
       /\ Push([d |-> 0, ell |-> ell], [d |-> 0, ell |-> ell])

Equal(ell) == {k \in 1 .. MaxLevels : maxedges[k].ell = ell}
FoundLast(ell) == maxedges[CHOOSE k \in Equal(ell) : \A n \in Equal(ell) : n <= k]   \* mutant
(* The first edge of the whole vector with the length of the phrase; the   *)
(* loop that finds none throws, which NeverThrows excludes.                *)
Found(ell) == maxedges[CHOOSE k \in Equal(ell) : \A n \in Equal(ell) : k <= n]

PushCopy ==
  /\ pc = "fix" /\ s \in Sols /\ next[s] = i
  /\ \E e \in CachedEdges(i) :
       /\ Equal(e.ell) # {}
       /\ Push([d |-> e.d, ell |-> e.ell], [d |-> Found(e.ell).d, ell |-> e.ell])

EndRoundHighest ==                                                      \* mutant
  /\ pc = "fix" /\ s \notin Sols
  /\ lowest_pos' = CHOOSE p \in Range(next) : \A n \in Sols : p >= next[n]
  /\ i' = i + 1 /\ pc' = "generate"
  /\ UNCHANGED <<text, caching, edges, maxedges, next, s, fixed>>
(* All have been looked at: round_min is the lowest of next. *)
EndRound ==
  /\ pc = "fix" /\ s \notin Sols
  /\ lowest_pos' = CHOOSE p \in Range(next) : \A n \in Sols : p <= next[n]
  /\ i' = i + 1 /\ pc' = "generate"
  /\ UNCHANGED <<text, caching, edges, maxedges, next, s, fixed>>

Finish ==
  /\ pc = "generate" /\ lowest_pos >= L
  /\ pc' = "done"
  /\ UNCHANGED <<text, i, caching, edges, integrating>>

Terminated == pc = "done" /\ UNCHANGED vars

Next == CacheStep \/ StartIntegration \/ StartEdges \/ NextLevel \/ SkipPosition
        \/ StartFixing \/ PassBy \/ PushLiteral \/ PushCopy \/ EndRound \/ Finish \/ Terminated

Spec == InitSession /\ [][Next]_vars

-------------------------------------------------------------------------------
(* Properties.                                                             *)

(* Every copy a cached parsing may have finds an edge among those just     *)
(* generated: integrate never throws "a fixable edge found no match".      *)
NeverThrows ==
  pc = "fix" =>
    \A e \in CachedEdges(i) : \E k \in DOMAIN mesh.edges : mesh.edges[k].ell = e.ell

(* A copy is given a distance of its own class, at which the text repeats  *)
(* for the whole phrase: the parsing still decodes to the text, at the     *)
(* cost it was found for, although the vector holds edges of positions     *)
(* before this one.                                                        *)
FixedCopiesTheText ==
  [][fixed' # fixed /\ fixed'.in.d > 0 =>
       LET copy == fixed'.out IN
       /\ copy.d \in 1 .. i
       /\ copy.ell <= MatchLen(text, i, copy.d)
       /\ GetId(copy.d, copy.ell) = GetId(fixed'.in.d, fixed'.in.ell)]_vars

(* No parsing is passed by: what is generated never gets past the next     *)
(* phrase of any, and all are whole when integrate returns.                *)
NoPhraseMissed ==
  /\ pc \in {"generate", "generating"} => \A n \in Sols : i <= next[n]
  /\ pc = "fix" => \A n \in Sols : IF n < s THEN i < next[n] ELSE i <= next[n]
  /\ pc = "done" => \A n \in Sols : next[n] = L
===============================================================================

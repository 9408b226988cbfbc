----------------------------- MODULE Calibration -----------------------------
(***************************************************************************)
(* From a machine to the cost models of a session: get_latencies reads the *)
(* probes of its memory, calibrator times the phrases of an encoder on it  *)
(* and prints a time model, which is put in a target with those of other   *)
(* encoders; bicriteria_compress reads it back and fuses it with the       *)
(* encoder's own model.                                                    *)
(***************************************************************************)
EXTENDS Calibrator, TargetFile

CONSTANTS
  Setups,       \* a machine: caches, literals, overheads; an encoder on it:
                \* name, cost model and longest literal run
  ProbesOf(_),  \* the probes its memory may answer with
  Matrices,     \* what the classes of phrases may take
  Others,       \* what a target holds before and after the encoder's section
  Lambdas,      \* multipliers of a session
  OneGig        \* length of the text literals are timed on

IsMatrix(m, rows, columns, S) ==
  m \in Seq(Seq(S)) /\ Len(m) = rows /\ \A k \in DOMAIN m : Len(m[k]) = columns
IsModel(cm) ==
  /\ IsClasses(cm.dst) /\ IsClasses(cm.len)
  /\ IsMatrix(cm.copy, Len(cm.dst), Len(cm.len), Int)
  /\ {cm.lit_fixed, cm.lit_var, cm.per_char} \subseteq Int

(* No encoder has its last class of lengths below those of lines, nor runs *)
(* longer than what they are timed on.                                     *)
ASSUME SetupsAssumption ==
  \A s \in Setups :
    /\ IsModel(s.encoder.cm) /\ Last(LineLengths(12)) <= Last(s.encoder.cm.len)
    /\ s.encoder.name # "" /\ s.encoder.literal_len \in 1 .. OneGig
    /\ {s.machine.fix, s.machine.var, s.machine.bmp, s.machine.penalty} \subseteq Nat
ASSUME MatricesAssumption ==
  \A cm \in Matrices, s \in Setups :
    IsMatrix(cm, Len(s.encoder.cm.dst), Len(s.encoder.cm.len), Nat \ {0})

(* Windows grow, beyond the farthest distance of the encoder. *)
ASSUME MemoryAssumption ==
  \A s \in Setups : \A p \in ProbesOf(s.machine) :
    LET found == memory_access_times(p)  ends == Ends(InBytes(found)) IN
    /\ IsClasses(ends) /\ Last(s.encoder.cm.dst) <= Last(ends)
    /\ found \in Seq([dist : Nat, latency : Nat])

(* No other section has the encoder's title, and titles start sections. *)
Line == [title : STRING, row : Seq(Int)]
ASSUME OthersAssumption ==
  \A other \in Others :
    /\ other.before \in Seq(Line) /\ other.after \in Seq(Line)
    /\ other.after # <<>> => IsTitle(Head(other.after))
    /\ \A s \in Setups, k \in DOMAIN other.before : other.before[k].title # s.encoder.name
ASSUME NumbersAssumption == OneGig \in Nat /\ Lambdas \subseteq Nat

VARIABLES
  pc,
  machine, encoder,  \* never change
  probes, windows,  \* of get_latencies
  measured,     \* time_matrix of phrase_decode_time
  phrase_times, \* and what reduce_tm makes of it
  literal,      \* of literal_decode_time
  overheads,    \* bmp_time and lit_penalty_time
  time_cm,      \* the model calibrator prints
  target,       \* lines of the target
  weight,       \* the time model read from it
  bound,        \* what the session bounds
  factory       \* its cm_factory

setup == <<machine, encoder>>
memory == <<probes, windows>>
phrases == <<measured, phrase_times>>
literals == <<literal, overheads>>
session == <<weight, bound, factory>>
vars == <<pc, setup, memory, phrases, literals, time_cm, target, session>>

Unknown == [dst |-> <<>>, len |-> <<>>]
NoTimes == [cm |-> <<>>, dsts |-> <<>>, lens |-> <<>>]

Init ==
  /\ pc = "probe" /\ \E s \in Setups : machine = s.machine /\ encoder = s.encoder
  /\ probes = <<>> /\ windows = <<>>
  /\ measured = NoTimes /\ phrase_times = NoTimes
  /\ literal = [fix |-> 0, var |-> 0] /\ overheads = [bmp |-> 0, penalty |-> 0]
  /\ time_cm = Unknown /\ target = <<>>
  /\ weight = Unknown /\ bound = "" /\ factory = [cost |-> Unknown, weight |-> Unknown]

MeasureMemory ==
  /\ pc = "probe"
  /\ probes' \in ProbesOf(machine)
  /\ windows' = memory_access_times(probes')
  /\ pc' = "phrases"
  /\ UNCHANGED <<setup, phrases, literals, time_cm, target, session>>

(* Neither the probes nor, later, what was measured is needed any more. *)
TimePhrases ==
  /\ pc = "phrases"
  /\ \E cm \in Matrices : measured' = [cm |-> cm, dsts |-> encoder.cm.dst, lens |-> encoder.cm.len]
  /\ probes' = <<>>
  /\ pc' = "reduce"
  /\ UNCHANGED <<setup, windows, phrase_times, literals, time_cm, target, session>>

ReduceTimes ==
  /\ pc = "reduce"
  /\ phrase_times' = reduce_tm(measured)
  /\ pc' = "literals"
  /\ UNCHANGED <<setup, memory, measured, literals, time_cm, target, session>>

TimeLiterals ==
  /\ pc = "literals"
  /\ literal' = literal_decode_time(encoder.literal_len, OneGig, machine.fix, machine.var)
  /\ measured' = NoTimes
  /\ pc' = "overheads"
  /\ UNCHANGED <<setup, memory, phrase_times, overheads, time_cm, target, session>>

(* Copies and mixed phrases take what their parts do, and n times more. *)
TimeOverheads ==
  /\ pc = "overheads"
  /\ LET copies == 10  expected == copies * literal.var
     IN  overheads' = [bmp |-> PerPhrase(expected + copies * machine.bmp, expected, copies),
                       penalty |-> PerPhrase(expected + copies * machine.penalty, expected, copies)]
  /\ pc' = "build"
  /\ UNCHANGED <<setup, memory, phrases, literal, time_cm, target, session>>

BuildModel ==
  /\ pc = "build"
  /\ time_cm' = get_cm(windows, literal.var, phrase_times, literal,
                       overheads.bmp, overheads.penalty, 12)
  /\ pc' = "print"
  /\ UNCHANGED <<setup, memory, phrases, literals, target, session>>

Section(name, rows) == <<Title(name)>> \o [k \in DOMAIN rows |-> Row(rows[k])]
PrintModel ==
  /\ pc = "print"
  /\ \E other \in Others :
       target' = other.before \o Section(encoder.name, wm_serialize(time_cm)) \o other.after
  /\ pc' = "read"
  /\ UNCHANGED <<setup, memory, phrases, literals, time_cm, session>>

ReadModel ==
  /\ pc = "read"
  /\ weight' = get_wm(target, encoder.name)
  /\ pc' = "fuse"
  /\ UNCHANGED <<setup, memory, phrases, literals, time_cm, target, bound, factory>>

(* The constructor of the compressor puts each model on the classes of     *)
(* both; the cost of a session is the one that is not bounded.             *)
fuse_cm(to_fuse, fused_with) == cm_factory(to_fuse, fused_with).cost
FuseModels ==
  /\ pc = "fuse"
  /\ \E space \in {fuse_cm(encoder.cm, weight)}, time \in {fuse_cm(weight, encoder.cm)} :
       \/ factory' = cm_factory(space, time) /\ bound' = "TIME"
       \/ factory' = cm_factory(time, space) /\ bound' = "SPACE"
  /\ pc' = "done"
  /\ UNCHANGED <<setup, memory, phrases, literals, time_cm, target, weight>>

Terminated == pc = "done" /\ UNCHANGED vars

Next == \/ MeasureMemory \/ TimePhrases \/ ReduceTimes \/ TimeLiterals \/ TimeOverheads
        \/ BuildModel \/ PrintModel \/ ReadModel \/ FuseModels \/ Terminated
Spec == Init /\ [][Next]_vars

-------------------------------------------------------------------------------
(* Properties.                                                             *)

(* Representatives of every class of a model: its ends, and the first      *)
(* number after each but the last.                                         *)
Points(ends) == {1} \union ToSet(ends) \union {ends[k] + 1 : k \in 1 .. (Len(ends) - 1)}
RunLengths == 0 .. 3

(* The windows of get_latencies are those of the machine: one for each     *)
(* cache and one, without end, for its memory, at their latencies, where   *)
(* no boundary is off by more than a probe.                                *)
CachesRecovered ==
  pc = "phrases" =>
    /\ Len(windows) = Len(machine.caches) /\ Last(windows).dist = MaxUnsigned
    /\ \A k \in DOMAIN windows :
         /\ windows[k].latency = machine.caches[k].latency
         /\ k < Len(windows) =>
              /\ 2 * windows[k].dist <= 3 * machine.caches[k].dist
              /\ 3 * windows[k].dist >= 2 * machine.caches[k].dist

(* reduce_tm groups classes in two passes, each within a tenth: the time   *)
(* it leaves a distance and a length is within two tenths of the measured. *)
TimeOf(tm, d, ell) == tm.cm[IndexOf(tm.dsts, d)][IndexOf(tm.lens, ell)]
ReducedIsClose ==
  pc = "literals" =>
    \A d \in Points(measured.dsts), ell \in Points(measured.lens) :
      LET x == TimeOf(phrase_times, d, ell)  y == TimeOf(measured, d, ell)
      IN  100 * Max({x, y}) <= 121 * Min({x, y})

(* The classes of phrases a class of the model is charged for: its own     *)
(* and, where it ends one, the class that starts after it as well.         *)
ChargedFor(labels, ends, x) ==
  LET next == Min({ends[IndexOf(ends, x)] + 1, Last(ends)})
  IN  {IndexOf(labels, y) : y \in {x, next}}
PhrasesTake(tm, cells) == MapThenSumSet(LAMBDA c : tm.cm[c[1]][c[2]], cells)

(* What a copy is to cost: entering it, missing the cache that holds its   *)
(* distance, decoding it.                                                  *)
CopyTime(d, ell) ==
  LET bytes == InBytes(windows)
      k == Min({n \in DOMAIN bytes : d <= bytes[n].dist})
      len == time_cm.len[IndexOf(time_cm.len, ell)]
      decode == PhrasesTake(phrase_times, ChargedFor(phrase_times.dsts, time_cm.dst, d)
                                       \X ChargedFor(phrase_times.lens, time_cm.len, ell))
  IN  64 * (overheads.bmp + decode) + Lines(12, len) * windows[k].latency

(* The model charges every copy these and nothing else, although its       *)
(* classes are those of the phrases, of the windows and of the lines       *)
(* together: one level of memory always, and one class of phrases but at   *)
(* the end of one, where get_cm adds the next one's time to its own.       *)
CopiesAddUp ==
  pc = "print" =>
    \A d \in Points(time_cm.dst), ell \in Points(time_cm.len) :
      GetCost(time_cm, d, ell) = CopyTime(d, ell)

(* And the longest literal run at what it takes on the machine, although   *)
(* only whole texts are timed: where the runs they are made of divide them.*)
Divides(ell) == OneGig % ell = 0 /\ (ell > min_lit => ell % min_lit = 0)
RunsAddUp ==
  pc = "print" /\ Divides(encoder.literal_len) =>
    LET ell == encoder.literal_len IN
    LitCost(time_cm, ell) + ell * time_cm.per_char
      = 64 * (machine.fix + ell * machine.var + machine.bmp + machine.penalty)

(* Fusing classes, and solving for what was not timed on its own, charge   *)
(* a copy and a run nothing but these.                                     *)
TimesAddUp == CopiesAddUp /\ RunsAddUp

(* The model read from a target is the one calibrated for the encoder,     *)
(* whatever else the target holds.                                         *)
ReadsBackTheModel == pc = "fuse" => weight = time_cm

Cost == IF bound = "TIME" THEN encoder.cm ELSE weight
Weight == IF bound = "TIME" THEN weight ELSE encoder.cm

(* fuse asks neither model for a distance or a length past its last class; *)
(* the fused models price every phrase as the two models do, and their     *)
(* mixtures as the sum with the multiplier.                                *)
FusedPrices ==
  pc = "done" =>
    \A lambda \in Lambdas :
      LET mixed == Mixture(factory, lambda)  map == CostMap(mixed) IN
      /\ \A d \in Points(mixed.dst), ell \in Points(mixed.len) :
           LET cost == GetCost(Cost, d, ell)  weighs == GetCost(Weight, d, ell) IN
           /\ InClasses(encoder.cm, d, ell) /\ InClasses(weight, d, ell)
           /\ GetCost(factory.cost, d, ell) = cost
           /\ GetCost(factory.weight, d, ell) = weighs
           /\ map[GetIdOf(mixed, d, ell)] = cost + lambda * weighs
      /\ \A ell \in RunLengths :
           LitCost(mixed, ell) = LitCost(Cost, ell) + lambda * LitCost(Weight, ell)

(* Solutions are recorded under the ids of their models: two models of a   *)
(* session with one id price everything alike.                             *)
IdsTellModelsApart ==
  pc = "done" =>
    LET models == {factory.cost, factory.weight} \union
                  {Mixture(factory, lambda) : lambda \in Lambdas}
    IN  \A m, n \in models : Id(m) = Id(n) => m = n
===============================================================================

---------------------------- MODULE TokenSampler ----------------------------
(***************************************************************************)
(* Drawing the next token from one row of logits (sampling.rs and          *)
(* engine/device_greedy.rs).  The code has the policy twice: sample, which *)
(* sorts and keeps every stage, and sample_id, which serves requests and   *)
(* counts order keys in buckets instead; a greedy token is reduced on the  *)
(* device.  A BF16 word is a sign and the index of a magnitude on a small  *)
(* grid, so that rounding merges values; options are in tenths.            *)
(***************************************************************************)
EXTENDS Integers, Sequences, SequencesExt, FiniteSets, FiniteSetsExt, TLC

CONSTANTS
    Grid,                  \* finite magnitudes in ascending order, from 0
    Vocabulary,            \* sequence of tokens; an id is a position in it
    GroupSize,             \* GROUP: ids reduced by one threadgroup
    Units, UnitScale       \* numerators of the generator's draws in [0, 1)

Ids == DOMAIN Vocabulary
(* One word per id; the concatenation has TLC evaluate each word once.     *)
Row(word(_)) == [id \in Ids |-> word(id)] \o <<>>
NoToken == "refused"

-----------------------------------------------------------------------------
(* Words.                                                                  *)

Infinite == Len(Grid) + 1
Huge == 100 * Grid[Len(Grid)]
NegInf == [neg |-> TRUE, mag |-> Infinite]
Absolute(v) == IF v < 0 THEN -v ELSE v

bf(word) ==
    LET size == IF word.mag = Infinite THEN Huge ELSE Grid[word.mag]
    IN  IF word.neg THEN -size ELSE size
(* The nearest magnitude: how many midpoints of the grid lie below.        *)
round(v) ==
    [neg |-> v < 0,
     mag |-> IF Absolute(v) > Grid[Len(Grid)] + 1 THEN Infinite
             ELSE 1 + Cardinality({m \in 2..Len(Grid) : 2 * Absolute(v) > Grid[m - 1] + Grid[m]})]

(* Unsigned keys in the order of the values: bits of a negative word are   *)
(* inverted, both zeros share a key.                                       *)
bf16_order_key(word) ==
    IF word.neg /\ word.mag # 1 THEN Infinite - word.mag ELSE word.mag + Infinite

-----------------------------------------------------------------------------
(* Reductions on the GPU and the elementary functions, as coarse tables.   *)

Top(words) == Max({bf(words[id]) : id \in DOMAIN words})
logsumexp_bf16(words) ==
    LET close == {id \in DOMAIN words : bf(words[id]) >= Top(words) - 1}
    IN  bf(round(Top(words) + IF Cardinality(close) > 1 THEN 1 ELSE 0))
exp_bf16(word) == CASE bf(word) >= 0 -> 10 [] bf(word) = -1 -> 4 [] bf(word) = -2 -> 1 [] OTHER -> 0
Logarithm(tenths) == IF tenths > 9 THEN 0 ELSE IF tenths > 3 THEN -1 ELSE -2
Weight(below) == CASE below = 0 -> 20 [] below = -1 -> 7 [] below = -2 -> 3
                   [] below < -2 /\ below > -Huge -> 1 [] OTHER -> 0

-----------------------------------------------------------------------------
(* Presence penalty and log probabilities.                                 *)

(* Tokens of the last presence_context_size positions, of all when zero.   *)
Seen(history, size) ==
    Range(IF size = 0 \/ size >= Len(history) THEN history
          ELSE SubSeq(history, Len(history) - size + 1, Len(history)))
presence(row, history, options) ==
    Row(LAMBDA id :
        IF /\ options["presence_penalty"] # 0
           /\ Vocabulary[id] \in Seen(history, options["presence_context_size"] \div 10)
        THEN round(bf(row[id]) - options["presence_penalty"] \div 10)
        ELSE row[id])
LogProbs(row, history, options) ==
    LET adjusted == presence(row, history, options)
        normalizer == logsumexp_bf16(adjusted)
    IN  Row(LAMBDA id : round(bf(adjusted[id]) - normalizer))

-----------------------------------------------------------------------------
(* Filters of the policy, by sorting.                                      *)

Kept(words, ids) == Row(LAMBDA id : IF id \in ids THEN words[id] ELSE NegInf)
Ascending(words) ==
    SortSeq([id \in Ids |-> id],
            LAMBDA a, b : bf(words[a]) < bf(words[b]) \/ (bf(words[a]) = bf(words[b]) /\ a < b))
Descending(words) ==
    SortSeq([id \in Ids |-> id],
            LAMBDA a, b : bf(words[a]) > bf(words[b]) \/ (bf(words[a]) = bf(words[b]) /\ a < b))

top_p_filter(words, top_p) ==
    LET order == Ascending(words)
        cumulative(n) == FoldSeq(LAMBDA id, sum : sum + exp_bf16(words[id]), 0, SubSeq(order, 1, n))
    IN  IF top_p <= 0 \/ top_p >= 10 THEN words
        ELSE Kept(words, {order[n] : n \in {m \in Ids : cumulative(m) > 10 - top_p}})
min_p_filter(words, min_p) ==
    LET threshold == bf(round(Top(words) + Logarithm(min_p)))
    IN  IF min_p = 0 THEN words ELSE Kept(words, {id \in Ids : bf(words[id]) >= threshold})
top_k_filter(words, top_k) ==
    IF top_k = 0 THEN words ELSE Kept(words, Range(SubSeq(Descending(words), 1, top_k)))

-----------------------------------------------------------------------------
(* The same filters over buckets of order keys.                            *)

Key(words, id) == bf16_order_key(words[id])
AtLeast(words, key) == {id \in Ids : Key(words, id) >= key}
(* Ids placed up to this one by the stable counting sort.                  *)
stable_ascending_order(words, id) ==
    {j \in Ids : \/ Key(words, j) < Key(words, id)
                 \/ Key(words, j) = Key(words, id) /\ j <= id}

top_p_filter_id(words, top_p) ==
    LET cumulative(id) == MapThenSumSet(LAMBDA j : exp_bf16(words[j]),
                                          stable_ascending_order(words, id))
    IN  IF top_p <= 0 \/ top_p >= 10 THEN words
        ELSE Row(LAMBDA id : IF cumulative(id) <= 10 - top_p THEN NegInf ELSE words[id])

(* Mutant: every id at the cutoff survives. *)
CutoffKeepsTies(words, top_k) ==
    LET cutoff == Max({Key(words, id) : id \in {i \in Ids :
                          Cardinality(AtLeast(words, Key(words, i))) >= top_k}})
    IN  IF top_k = 0 THEN words ELSE Kept(words, AtLeast(words, cutoff))
top_k_filter_id(words, top_k) ==
    LET cutoff == Max({Key(words, id) : id \in {i \in Ids :
                          Cardinality(AtLeast(words, Key(words, i))) >= top_k}})
        remaining == top_k - Cardinality(AtLeast(words, cutoff + 1))
        earlier(id) == {j \in Ids : j < id /\ Key(words, j) = cutoff}
    IN  IF top_k = 0 THEN words
        ELSE Kept(words, {id \in Ids :
                 \/ Key(words, id) > cutoff
                 \/ Key(words, id) = cutoff /\ Cardinality(earlier(id)) < remaining})

-----------------------------------------------------------------------------
(* Preparation: top-p, min-p, top-k, then the temperature.                 *)

Scaled(words, temperature) ==
    Row(LAMBDA id : IF words[id] = NegInf THEN NegInf ELSE round((10 * bf(words[id])) \div temperature))
prepare_id(row, history, options) ==
    Scaled(top_k_filter_id(
               min_p_filter(top_p_filter_id(LogProbs(row, history, options), options["top_p"]),
                            options["min_p"]),
               options["top_k"] \div 10),
           options["temperature"])
prepare(row, history, options) ==
    Scaled(top_k_filter(
               min_p_filter(top_p_filter(LogProbs(row, history, options), options["top_p"]),
                            options["min_p"]),
               options["top_k"] \div 10),
           options["temperature"])

(* A draw in id order; nothing is left when top-p removed every id.        *)
draw_prepared(words, unit) ==
    LET weight == Row(LAMBDA id : IF words[id] = NegInf THEN 0 ELSE Weight(bf(words[id]) - Top(words)))
        upto(id) == MapThenSumSet(LAMBDA j : weight[j], 1..id)
        positive == {id \in Ids : weight[id] > 0}
        passed == {id \in positive : upto(id) * UnitScale > unit * upto(Len(Vocabulary))}
    IN  IF Top(words) = -Huge THEN NoToken
        ELSE Vocabulary[IF passed = {} THEN Max(positive) ELSE Min(passed)]

-----------------------------------------------------------------------------
(* Greedy: one candidate per block of ids, then the best of the blocks;    *)
(* the lower id wins a tie.                                                *)

greedy_better(words, a, b) ==
    bf(words[a]) > bf(words[b]) \/ (bf(words[a]) = bf(words[b]) /\ a < b)
Best(words, ids) == CHOOSE a \in ids : \A b \in ids \ {a} : greedy_better(words, a, b)
Block(n) == {id \in Ids : (id - 1) \div GroupSize = n}
DeviceGreedy(row, history, options) ==
    LET words == LogProbs(row, history, options)
        partials == {Best(words, Block(n)) : n \in 0..((Len(Vocabulary) - 1) \div GroupSize)}
    IN  Vocabulary[Best(words, partials)]

-----------------------------------------------------------------------------
(* What the engine returns, and what the policy says.                      *)

SampleCommitted(row, history, options, unit) ==
    IF options["temperature"] = 0 THEN DeviceGreedy(row, history, options)
    ELSE IF options["top_k"] \div 10 >= Len(row) THEN NoToken
    ELSE draw_prepared(prepare_id(row, history, options), unit)

ReferenceSample(row, history, options, unit) ==
    IF options["temperature"] = 0 THEN Vocabulary[Descending(LogProbs(row, history, options))[1]]
    ELSE IF options["top_k"] \div 10 >= Len(row) THEN NoToken
    ELSE draw_prepared(prepare(row, history, options), unit)
=============================================================================

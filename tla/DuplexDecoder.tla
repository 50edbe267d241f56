--------------------------- MODULE DuplexDecoder ---------------------------
(***************************************************************************)
(* The KV cache of a full-duplex session and its sliding window            *)
(* (MiniCPMO45/utils.py, StreamDecoder).  A session is a sequence of units *)
(* of one second behind a protected system prompt.  Two windows keep it    *)
(* short: "basic" cuts the oldest units out of the cache, "context" also   *)
(* moves what they said to a "previous" region of the prompt.  A sticky    *)
(* text, written on command, lives behind that region.                     *)
(*                                                                         *)
(* The code keeps lengths only: which tokens a length stands for is not    *)
(* checked anywhere.  Here a token is <<kind, n>>, so that a cut at the    *)
(* wrong place shows.  Keys, values and their rotary positions are left    *)
(* out; the window never uses a position that differs from the place in    *)
(* the cache (_position_offset stays zero in "context" and enters no cut   *)
(* in "basic").                                                            *)
(***************************************************************************)
EXTENDS Naturals, Sequences, SequencesExt

CONSTANTS
  PrefixLen,  \* tokens of the system prompt before the "previous" region
  SuffixLen,  \* tokens of the system prompt behind it
  High,       \* basic_window_high_tokens
  Low,        \* basic_window_low_tokens
  MaxUnits,   \* context_max_units
  MaxPrev     \* context_previous_max_tokens

ASSUME DecoderAssumption ==
  /\ {PrefixLen, SuffixLen, MaxUnits, MaxPrev} \subseteq Nat \ {0}
  /\ {High, Low} \subseteq Nat

Tokens(kind, n, len) == [i \in 1..len |-> <<kind, n>>]

Prefix == [i \in 1..PrefixLen |-> <<"prefix", i>>]
Suffix == [i \in 1..SuffixLen |-> <<"suffix", i>>]
Marker == <<<<"marker", 0>>>>

(* reset.  prefix is _preserve_prefix_length, preserve is                  *)
(* _system_preserve_length, said is the content of _previous_token_ids     *)
(* (the numbers of the words) and prevLen is _previous_content_length.     *)
(* start is the cache length that register_unit_start noted.               *)
Reset ==
  [cache |-> <<>>, units |-> <<>>, start |-> 0, prefix |-> 0, preserve |-> 0,
   said |-> <<>>, prevLen |-> 0, sticky |-> <<>>]

(* Prepare's feeds and register_system_prompt, or _with_context, which     *)
(* alone registers the prefix.                                             *)
SystemPrompt(mode) ==
  [Reset EXCEPT !.cache = Prefix \o Suffix,
                !.prefix = IF mode = "context" THEN PrefixLen ELSE 0,
                !.preserve = PrefixLen + SuffixLen]

Feed(d, tokens) == [d EXCEPT !.cache = @ \o tokens]

UnitStart(d) == [d EXCEPT !.start = Len(d.cache)]

UnitEnd(d, n, listen, words) ==
  [d EXCEPT !.units = Append(@, [no |-> n, len |-> Len(d.cache) - d.start,
                                 listen |-> listen, words |-> words])]

TotalLen(units) == FoldLeft(LAMBDA sum, u : sum + u.len, 0, units)

Latest(s, n) == SubSeq(s, Len(s) - n + 1, Len(s))

(* The "previous" region: the marker is there from the first content on.   *)
Previous(d) ==
  IF d.said = <<>> THEN <<>>
  ELSE Marker \o [i \in DOMAIN d.said |-> <<"said", d.said[i]>>]

(* Mutant: the length of the region is not noted. *)
RebuildUnnoted(d) ==
  LET region == Previous(d) \o d.sticky
      kept == Latest(d.cache, TotalLen(d.units))
  IN  IF region = <<>> /\ d.prevLen = 0
      THEN [d EXCEPT !.cache = SubSeq(@, 1, d.prefix + SuffixLen) \o kept]
      ELSE [d EXCEPT !.cache = SubSeq(@, 1, d.prefix) \o region \o Suffix \o kept]

(* _rebuild_cache_with_previous: the units that are kept are taken from    *)
(* the end of the cache, by their length.                                  *)
Rebuild(d) ==
  LET region == Previous(d) \o d.sticky
      kept == Latest(d.cache, TotalLen(d.units))
  IN  IF region = <<>> /\ d.prevLen = 0
      THEN [d EXCEPT !.cache = SubSeq(@, 1, d.prefix + SuffixLen) \o kept]
      ELSE [d EXCEPT !.cache = SubSeq(@, 1, d.prefix) \o region \o Suffix \o kept,
                     !.prevLen = Len(region),
                     !.preserve = d.prefix + Len(region) + SuffixLen]

(* enforce_window: above the high water mark the oldest units are dropped, *)
(* one by one, until the low one is reached or none is left.               *)
EnforceBasic(d) ==
  LET rest(k) == Len(d.cache) - TotalLen(SubSeq(d.units, 1, k))
      k == CHOOSE i \in 0..Len(d.units) :
             /\ rest(i) <= Low \/ i = Len(d.units)
             /\ \A h \in 0..(i - 1) : rest(h) > Low
      cut == TotalLen(SubSeq(d.units, 1, k))
  IN  IF Len(d.cache) <= High THEN d
      ELSE [d EXCEPT !.cache = SubSeq(@, 1, d.preserve)
                                 \o SubSeq(@, d.preserve + cut + 1, Len(@)),
                     !.units = SubSeq(@, k + 1, Len(@))]

(* _extract_generated_text: what a unit said; one that listened is silent. *)
Extract(unit) == IF unit.listen THEN <<>> ELSE unit.words

(* Mutant: the oldest words are kept. *)
RememberOldest(said, words) ==
  LET all == said \o words
  IN  SubSeq(all, 1, IF Len(all) > MaxPrev THEN MaxPrev ELSE Len(all))

(* _update_previous: the latest MaxPrev words are kept. *)
Remember(said, words) ==
  LET all == said \o words
  IN  IF words = <<>> THEN said
      ELSE Latest(all, IF Len(all) > MaxPrev THEN MaxPrev ELSE Len(all))

(* enforce_window_with_context.  A unit was added since the last call, so  *)
(* its loop drops at most one.                                             *)
EnforceContext(d) ==
  IF Len(d.units) <= MaxUnits THEN d
  ELSE Rebuild([d EXCEPT !.said = Remember(@, Extract(Head(d.units))),
                         !.units = Tail(@)])

Enforce(mode, d) ==
  CASE mode = "basic"   -> EnforceBasic(d)
    [] mode = "context" -> EnforceContext(d)
    [] mode = "off"     -> d

(* set_sticky_text; text 0 clears it. *)
SetSticky(d, text) ==
  LET ids == Tokens("sticky", text, IF text = 0 THEN 0 ELSE 1)
  IN  IF d.prefix = 0 \/ ids = d.sticky THEN d
      ELSE Rebuild([d EXCEPT !.sticky = ids])
=============================================================================

--------------------------- MODULE ReferenceSync ---------------------------
(***************************************************************************)
(* Late reference definitions.  The stream keeps an index of the labels    *)
(* that committed blocks use (push_committed_block in stream.rs); when a   *)
(* block with a definition is committed, the Update names the blocks to    *)
(* parse again.  A PulldownAdapter (adapters/pulldown.rs), which gets each *)
(* Update when the DocumentState does, keeps the parsed blocks.            *)
(*                                                                         *)
(* A parser's result is what it depends on: the text, and the definitions  *)
(* of the labels that the text uses.                                       *)
(***************************************************************************)
EXTENDS DocumentSync

CONSTANTS
  Label,        \* normalized labels
  Uses,         \* Uses[t]: the labels that the line t uses
  Defines,      \* Defines[t]: the label that the line t defines, as a set
  Invalidates   \* opts.reference_definitions = Invalidate

ASSUME LabelAssumption ==
  /\ Uses \in [Text -> SUBSET Label]
  /\ Defines \in [Text -> SUBSET Label]
  /\ \A t \in Text : \A l, m \in Defines[t] : l = m
  /\ Invalidates \in BOOLEAN

VARIABLES
  index,          \* reference_usage_index
  flagged,        \* ctx.invalidated of the call that is running
  invalidations,  \* the field invalidated of each of the updates
  adapter         \* the PulldownAdapter

referenceVars == <<syncVars, index, flagged, invalidations, adapter>>

UsesOf(raw) == UNION {Uses[raw[k]] : k \in DOMAIN raw}

DefinedBy(raw) == UNION {Defines[raw[k]] : k \in DOMAIN raw}

EmptyIndex == [l \in Label |-> {}]

(***************************************************************************)
(* Maps as functions: none, and one after its entries are inserted.        *)
(***************************************************************************)
NoEntry == [k \in {} |-> k]

Insert(map, entries) ==
  [k \in DOMAIN map \cup DOMAIN entries |->
     IF k \in DOMAIN entries THEN entries[k] ELSE map[k]]

NewAdapter ==
  [raw |-> NoEntry, parsed |-> NoEntry, definitions |-> NoEntry]

ReferenceInit ==
  /\ SyncInit
  /\ index = EmptyIndex /\ flagged = {} /\ invalidations = <<>>
  /\ adapter = NewAdapter

-----------------------------------------------------------------------------
(***************************************************************************)
(* push_committed_block: index what the block uses, then flag the other    *)
(* blocks that use what it defines.  Fenced code does neither.             *)
(***************************************************************************)
IndexBlock(idx, b) ==
  IF b.kind = "CodeFence" THEN idx
  ELSE [l \in Label |-> IF l \in UsesOf(b.raw) THEN idx[l] \cup {b.id}
                        ELSE idx[l]]

FlagUsers(idx, b) ==
  IF Invalidates /\ b.kind # "CodeFence"
  THEN (UNION {idx[l] : l \in DefinedBy(b.raw)}) \ {b.id}
  ELSE {}

Push(st, b) ==
  LET idx == IndexBlock(st.index, b)
  IN  [index |-> idx, flagged |-> st.flagged \cup FlagUsers(idx, b)]

PushAll(st, blocks) ==
  LET pushed[k \in 0..Len(blocks)] ==
        IF k = 0 THEN st ELSE Push(pushed[k - 1], blocks[k])
  IN  pushed[Len(blocks)]

(***************************************************************************)
(* The blocks that a step commits, and the index after it.  A switch to a  *)
(* single block empties the index.                                         *)
(***************************************************************************)
NewlyCommitted ==
  SubSeq(cur'.committed, Len(cur.committed) + 1, Len(cur'.committed))

\* Faulty variant: the switch to a single block leaves the index as it is.
PushedKept ==
  PushAll([index |-> index, flagged |-> flagged], NewlyCommitted)

Pushed ==
  IF report'.reset THEN [index |-> EmptyIndex, flagged |-> {}]
  ELSE PushAll([index |-> index, flagged |-> flagged], NewlyCommitted)

ProduceReferences(chunks, calls) ==
  /\ \/ ProduceByAppend(chunks, calls)
     \/ ProduceByEmptyAppend(calls)
     \/ ProduceByFinalize
  /\ index' = Pushed.index
  /\ IF pc' = "idle"
     THEN /\ invalidations' = Append(invalidations, Pushed.flagged)
          /\ flagged' = {}
     ELSE flagged' = Pushed.flagged /\ UNCHANGED invalidations
  /\ UNCHANGED adapter

-----------------------------------------------------------------------------
(***************************************************************************)
(* PulldownAdapter::apply_update.  Definitions are collected line by line, *)
(* the latest for each label, and put in front of what is parsed.          *)
(***************************************************************************)
Collect(definitions, raw) ==
  LET collected[k \in 0..Len(raw)] ==
        IF k = 0 THEN definitions
        ELSE Insert(collected[k - 1], [l \in Defines[raw[k]] |-> raw[k]])
  IN  collected[Len(raw)]

Fenced(raw) == StartMode(raw[1]) = "CodeFence"

Parse(raw, definitions) ==
  LET links == IF Fenced(raw) THEN {}
               ELSE UsesOf(raw) \cap DOMAIN definitions
  IN  [raw |-> raw, links |-> [l \in links |-> definitions[l]]]

AddBlock(a, b) ==
  LET definitions == Collect(a.definitions, b.raw)
  IN  [raw |-> Insert(a.raw, [i \in {b.id} |-> b.raw]),
       parsed |-> Insert(a.parsed,
                         [i \in {b.id} |-> Parse(b.raw, definitions)]),
       definitions |-> definitions]

AddAll(a, blocks) ==
  LET added[k \in 0..Len(blocks)] ==
        IF k = 0 THEN a ELSE AddBlock(added[k - 1], blocks[k])
  IN  added[Len(blocks)]

ParseAgain(a, ids) ==
  [a EXCEPT !.parsed =
     Insert(@, [i \in ids \cap DOMAIN a.raw |->
                  Parse(a.raw[i], a.definitions)])]

\* Faulty variant: the invalidated blocks are parsed before the definitions
\* of the update are known.
ApplyInvalidatedFirst(a, u, ids) ==
  AddAll(ParseAgain(IF u.reset THEN NewAdapter ELSE a, ids), u.committed)

ApplyUpdate(a, u, ids) ==
  ParseAgain(AddAll(IF u.reset THEN NewAdapter ELSE a, u.committed), ids)

ApplyReferences ==
  /\ Apply
  /\ adapter' = ApplyUpdate(adapter, Head(updates), Head(invalidations))
  /\ invalidations' = Tail(invalidations)
  /\ UNCHANGED <<index, flagged>>

(***************************************************************************)
(* A new document: PulldownAdapter::clear comes with DocumentState::clear. *)
(***************************************************************************)
NewReferences ==
  /\ NewDocument
  /\ index' = EmptyIndex /\ flagged' = {} /\ invalidations' = <<>>
  /\ adapter' = NewAdapter

ReferenceNextOn(chunks, calls) ==
  \/ ProduceReferences(chunks, calls)
  \/ ApplyReferences
  \/ NewReferences

ReferenceNext == ReferenceNextOn(Chunk, {"append", "append_ref"})

ReferenceSpec == ReferenceInit /\ [][ReferenceNext]_referenceVars

-----------------------------------------------------------------------------
(***************************************************************************)
(* The definitions that a document with these blocks has: fenced code      *)
(* defines nothing, and the adapter takes the latest of two.               *)
(***************************************************************************)
DefinitionsIn(blocks) ==
  LET defs[k \in 0..Len(blocks)] ==
        IF k = 0 THEN NoEntry
        ELSE IF blocks[k].kind = "CodeFence" THEN defs[k - 1]
        ELSE Collect(defs[k - 1], blocks[k].raw)
  IN  defs[Len(blocks)]

(***************************************************************************)
(* The point of invalidation (README.md, "to avoid missing invalidations"):*)
(* however late the consumer is, the adapter holds exactly the committed   *)
(* blocks of the view, each parsed with every definition there is in it,   *)
(* before or after the block, though only the flagged ones are parsed      *)
(* again; and a definition inside a code fence is none.                    *)
(***************************************************************************)
ParsedIsFresh ==
  /\ DOMAIN adapter.parsed =
       {view.committed[k].id : k \in DOMAIN view.committed}
  /\ \A k \in DOMAIN view.committed :
       LET b == view.committed[k]
       IN  adapter.parsed[b.id] = Parse(b.raw, DefinitionsIn(view.committed))

(***************************************************************************)
(* An Update names only blocks that its consumer has been given, in this   *)
(* update or before, and not dropped since: no id of a document that a     *)
(* switch to a single block has made obsolete.                             *)
(***************************************************************************)
FlaggedIsKnown ==
  LET after[n \in 0..Len(updates)] ==
        IF n = 0 THEN view ELSE ApplyTo(after[n - 1], updates[n])
  IN  \A n \in DOMAIN updates :
        invalidations[n] \subseteq
          {after[n].committed[k].id : k \in DOMAIN after[n].committed}
=============================================================================

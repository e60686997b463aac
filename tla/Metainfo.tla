------------------------------- MODULE Metainfo -------------------------------
(***************************************************************************)
(* torrent::extract and torrent::from_info_dict: what the dictionary of a  *)
(* torrent file, and the info dictionary a peer sends, say of a torrent.   *)
(* Both walk over all the entries and each must be well formed; of a key   *)
(* given twice the last one counts, but the hashes of every "pieces" are   *)
(* appended to one list.  The two have the same loop over the info         *)
(* dictionary.  An error is an exception, whichever comes first.           *)
(***************************************************************************)
EXTENDS Integers, Sequences, SequencesExt, FiniteSets

CONSTANTS
  HashSize,   \* bytes in a hash, 20 in the code
  KeyOrder    \* the keys of an instance, in their order as strings

ASSUME MetainfoAssumption == HashSize \in Nat \ {0} /\ KeyOrder \in Seq(STRING)

Keys      == {KeyOrder[k] : k \in DOMAIN KeyOrder}
Rank(key) == CHOOSE k \in DOMAIN KeyOrder : KeyOrder[k] = key

\* The entry of a decoded dictionary: the value is a sequence of bytes for a
\* string, of entries for the info dictionary; what is in lists and in further
\* dictionaries is left out.
InfoEntries ==
  [key : Keys, type : {"integer"}, value : Int]
    \cup [key : Keys, type : {"string"}, value : Seq(Nat)]
    \cup [key : Keys, type : {"list", "dict"}, value : {<< >>}]
Entries == InfoEntries \cup [key : Keys, type : {"dict"}, value : Seq(InfoEntries)]

Entry(key, type, value) == [key |-> key, type |-> type, value |-> value]

Named(dict, key) == {k \in DOMAIN dict : dict[k].key = key}

\* An entry has the key, and std::get finds its type in all that have it.
Given(dict, key, type) ==
  Named(dict, key) # {} /\ \A k \in Named(dict, key) : dict[k].type = type

LastOf(dict, key) == dict[SelectLastInSeq(dict, LAMBDA e : e.key = key)].value

InfoIsRead(info) ==
  /\ Given(info, "length", "integer") /\ Given(info, "piece length", "integer")
  /\ Given(info, "pieces", "string")
  /\ \A k \in Named(info, "pieces") : Len(info[k].value) % HashSize = 0

PieceHashes(info) ==
  LET raw == FlattenSeq([k \in DOMAIN info |->
                           IF info[k].key = "pieces" THEN info[k].value ELSE << >>])
  IN  [p \in 1 .. Len(raw) \div HashSize |-> SubSeq(raw, (p - 1) * HashSize + 1, p * HashSize)]

\* A text is known by the entries it spells, in their order, and by whether it
\* spells them the only way bencoding has; its digest identifies it.
Digest(entries, spelling) == [entries |-> entries, spelling |-> spelling]

\* The entries in the order of their keys, those of one key in the order they
\* have, and the place of each.
Place(entries, k) ==
  Cardinality({j \in DOMAIN entries :
    \/ Rank(entries[j].key) < Rank(entries[k].key)
    \/ entries[j].key = entries[k].key /\ j <= k})

Sorted(entries) ==
  [i \in DOMAIN entries |-> entries[CHOOSE k \in DOMAIN entries : Place(entries, k) = i]]

\* Fault: only the entries that are used go into the digest.
InfoHashOfKnown(info) ==
  Digest(Sorted(SelectSeq(info, LAMBDA e : e.key # "name")), "canonical")

\* The digest of what encode makes of the dictionary.
InfoHash(info) == Digest(Sorted(info), "canonical")

FromInfoDict(info) ==
  [announce    |-> << >>,
   length      |-> LastOf(info, "length"),
   infoHash    |-> InfoHash(info),
   pieceLength |-> LastOf(info, "piece length"),
   hashes      |-> PieceHashes(info)]

\* extract returns, and what it returns.
Extractable(dict) ==
  /\ Given(dict, "announce", "string") /\ Given(dict, "info", "dict")
  /\ InfoIsRead(LastOf(dict, "info"))

Extract(dict) ==
  [FromInfoDict(LastOf(dict, "info")) EXCEPT !.announce = LastOf(dict, "announce")]

=============================================================================

-------------------------- MODULE CardinalityPolicy --------------------------
(***************************************************************************)
(* The write policy of src/parking/memory_cardinality_policy.py: the same     *)
(* upsert as EpochBoundMemoryStore.write_project, over a tuple of records,    *)
(* for a caller that has built the incoming record itself.                    *)
(***************************************************************************)
EXTENDS MemoryRecords

OfKey(recs, positions, key) == {i \in positions : recs[i].key = key}

(* A faulty policy, for the mutation runs: a full authority makes room by     *)
(* dropping its oldest record.                                                *)
ApplyWriteEvicting(recs, incoming) ==
  LET matching == Matching(recs, Parse(incoming.authority))
      same == OfKey(recs, matching, incoming.key)
  IN  IF same # {} THEN [recs EXCEPT ![Min(same)] = incoming]
      ELSE IF Cardinality(matching) >= MaxRecordsPerAuthority
        THEN SubSeq(recs, 1, Min(matching) - 1)
               \o SubSeq(recs, Min(matching) + 1, Len(recs)) \o << incoming >>
        ELSE Append(recs, incoming)

(* apply_write: the authority of the incoming record is parsed for the        *)
(* comparison only, and the record is stored as it came; an authority that    *)
(* does not parse and a full one raise.                                        *)
ApplyWrite(recs, incoming) ==
  LET matching == Matching(recs, Parse(incoming.authority))
      same == OfKey(recs, matching, incoming.key)
  IN  IF ~ WellFormed(incoming.authority) THEN recs
      ELSE IF same # {} THEN [recs EXCEPT ![Min(same)] = incoming]
      ELSE IF Cardinality(matching) >= MaxRecordsPerAuthority THEN recs
      ELSE Append(recs, incoming)
=============================================================================

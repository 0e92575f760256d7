----------------------------- MODULE RequestTag -----------------------------
(***************************************************************************)
(* The byte tag that names a packet's request (sfc_tag.cc) and the search  *)
(* for the request it names (RequestsMap::find and Requests::find of       *)
(* type.h).                                                                *)
(***************************************************************************)
EXTENDS Integers, Sequences

CONSTANTS
  Byte,        \* values of a uint8_t: 256
  TagSize      \* GetSerializedSize: 20

Bytes == 0..Byte - 1
Invalid == Byte - 1       \* 0xFF, "means invalid"

ASSUME TagAssumption ==
  /\ Byte \in Nat \ {0, 1}
  /\ TagSize \in Nat /\ TagSize >= 7

-----------------------------------------------------------------------------
\* SetData: seven members of requestTag, each cut to a byte.  create_traffic
\* assigns the first and the last; what the others hold is undefined, and
\* junk stands for it.
SetData(id, arriveTime, junk) ==
  <<id % Byte, junk, junk, junk, junk, junk, arriveTime % Byte>>

\* Serialize fills the rest of the buffer with 0xFF.
Serialize(tag) ==
  [j \in 1..TagSize |-> IF j <= Len(tag) THEN tag[j] ELSE Invalid]

\* Deserialize appends the bytes that are not 0xFF to an empty m_tag.
Deserialize(buffer) ==
  LET m_tag[j \in 0..Len(buffer)] ==
        IF j = 0 THEN <<>>
        ELSE IF buffer[j] = Invalid THEN m_tag[j - 1]
        ELSE Append(m_tag[j - 1], buffer[j])
  IN  m_tag[Len(buffer)]

\* setRequestTag: the first byte is taken for the id.
TagId(tag) == Head(tag)

\* What HandleRead reads as the id of the request that sent the packet.
ReadId(id, arriveTime, junk) ==
  TagId(Deserialize(Serialize(SetData(id, arriveTime, junk))))

-----------------------------------------------------------------------------
NotFound == -1

\* Requests::find gives up when the first element is another one.
FindInSlot(rs, id) == IF rs[1].id = id THEN rs[1].id ELSE NotFound

\* A slip: find takes any request where it should compare the ids.
FindAny(rsMap, slots, id) ==
  LET in == {s \in slots : rsMap[s] # <<>>}
  IN  IF in = {} THEN NotFound
      ELSE rsMap[CHOOSE s \in in : \A u \in in : s <= u][1].id

\* RequestsMap::find asks the slots one after the other and does not look at
\* the slot it was given.
Find(rsMap, slots, id) ==
  IF \E s \in slots : rsMap[s] # <<>> /\ FindInSlot(rsMap[s], id) # NotFound
    THEN id ELSE NotFound

=============================================================================

--------------------------------- MODULE Der ---------------------------------
(***************************************************************************)
(* The DER of timestamp.py: lengths, integers and elements as it writes    *)
(* them and as it reads them from a file nobody vouches for.  A byte has   *)
(* Bits bits here instead of eight, so a length needs its long form after  *)
(* a few bytes.                                                            *)
(***************************************************************************)
EXTENDS Integers, Sequences

CONSTANTS Bits,      \* bits of a byte
          MaxWidth,  \* longest length of a length that is read (4)
          Seq30,     \* the tag of a SEQUENCE
          MaxLen     \* bound on a file's length

Base == 2^Bits
High == Base \div 2                    \* 0x80
Byte == 0..(Base - 1)

NoTiling == <<[tag |-> 0 - 1, from |-> 0, to |-> 0]>>   \* _der_children's None

VARIABLE token

-----------------------------------------------------------------------------
(* Writing. *)

BitLength(n) == CHOOSE b \in 0..(Bits * (MaxLen + 1)) : 2^b > n /\ (b > 0 => 2^(b - 1) <= n)

BigEndian(n, width) == [i \in 1..width |-> (n \div Base^(width - i)) % Base]

DerLen(n) == IF n < High THEN <<n>>
             ELSE LET width == (BitLength(n) + Bits - 1) \div Bits
                  IN  <<High + width>> \o BigEndian(n, width)

Tlv(tag, body) == <<tag>> \o DerLen(Len(body)) \o body

(* Fault in IntBody: no room is left for the sign. *)
UnsignedBody(v) == IF v = 0 THEN <<0>> ELSE BigEndian(v, (BitLength(v) + Bits - 1) \div Bits)

IntBody(v) == IF v = 0 THEN <<0>> ELSE BigEndian(v, (BitLength(v) + Bits) \div Bits)

-----------------------------------------------------------------------------
(* Reading. *)

RECURSIVE FromBytes(_)
FromBytes(s) == IF s = <<>> THEN 0 ELSE FromBytes(SubSeq(s, 1, Len(s) - 1)) * Base + s[Len(s)]

SignedInt(s) == FromBytes(s) - (IF s[1] >= High THEN Base^Len(s) ELSE 0)

IsDerSequence(s) ==
  /\ Len(s) >= 2 /\ s[1] = Seq30
  /\ LET n == s[2]  width == n - High IN
     IF n < High THEN 2 + n = Len(s)
     ELSE /\ width \in 1..MaxWidth /\ Len(s) >= 2 + width
          /\ 2 + width + FromBytes(SubSeq(s, 3, 2 + width)) = Len(s)

(* Fault in Children: an element may run past its span. *)
RECURSIVE ChildrenPast(_, _, _)
ChildrenPast(s, k, end) ==
  IF k >= end THEN <<>>
  ELSE IF k + 2 > end THEN NoTiling
  ELSE LET n == s[k + 2]
           width == IF n < High THEN 0 ELSE n - High
           unread == n >= High /\ (width = 0 \/ width > MaxWidth \/ k + 2 + width > end)
           length == IF n < High THEN n ELSE FromBytes(SubSeq(s, k + 3, k + 2 + width))
           next == k + 2 + width + length
       IN  IF unread THEN NoTiling
           ELSE <<[tag |-> s[k + 1], from |-> k + 2 + width, to |-> next]>> \o ChildrenPast(s, next, end)

(* The elements between k and end, as far as they tile that span exactly;   *)
(* positions count the bytes before them.                                   *)
RECURSIVE Children(_, _, _)
Children(s, k, end) ==
  IF k >= end THEN <<>>
  ELSE IF k + 2 > end THEN NoTiling
  ELSE LET n == s[k + 2]
           width == IF n < High THEN 0 ELSE n - High
           unread == n >= High /\ (width = 0 \/ width > MaxWidth \/ k + 2 + width > end)
           length == IF n < High THEN n ELSE FromBytes(SubSeq(s, k + 3, k + 2 + width))
           next == k + 2 + width + length
       IN  IF unread THEN NoTiling ELSE IF next > end THEN NoTiling
           ELSE LET rest == Children(s, next, end)
                IN  IF rest = NoTiling THEN NoTiling
                    ELSE <<[tag |-> s[k + 1], from |-> k + 2 + width, to |-> next]>> \o rest

Content(s, e) == SubSeq(s, e.from + 1, e.to)

-----------------------------------------------------------------------------
Init == token = <<>>
Next == Len(token) < MaxLen /\ \E b \in Byte : token' = Append(token, b)
Spec == Init /\ [][Next]_token

(* The two readers agree on every file: what _is_der_sequence takes is what  *)
(* _der_children reads as one SEQUENCE, whatever lengths the file states.    *)
ReadersAgree ==
  LET top == Children(token, 0, Len(token))
  IN  IsDerSequence(token) <=> (top # NoTiling /\ Len(top) = 1 /\ top[1].tag = Seq30)

(* Whatever is put between two tags is read back as those two elements, on   *)
(* both sides of the length that needs the long form.                        *)
WrittenIsRead ==
  \A i \in 0..Len(token) :
    LET a == SubSeq(token, 1, i)
        b == SubSeq(token, i + 1, Len(token))
        s == Tlv(Seq30, a) \o Tlv(0, b)
        kids == Children(s, 0, Len(s))
    IN  /\ kids # NoTiling /\ Len(kids) = 2
        /\ kids[1].tag = Seq30 /\ Content(s, kids[1]) = a
        /\ kids[2].tag = 0 /\ Content(s, kids[2]) = b

(* A nonce comes back as the number that went out, at every sign bit.        *)
NonceReadBack ==
  LET nonce == FromBytes(token)
      s == Tlv(2, IntBody(nonce))
  IN  SignedInt(Content(s, Children(s, 0, Len(s))[1])) = nonce
=============================================================================

----------------------------- MODULE DataStreams -----------------------------
(***************************************************************************)
(* The streams over the data of a sofa: a local one over the string or the *)
(* array in the CAS, a remote one over what the handler of the scheme of   *)
(* its URI delivers.  Data is the sequence of its bytes, each known by its *)
(* position; a read delivers a run of positions.                           *)
(* A string is copied by open(); of an array the stream keeps the address  *)
(* in the heap of the CAS.                                                 *)
(***************************************************************************)
EXTENDS Integers, FiniteSets

CONSTANTS Elements,     \* bound of the elements of a sofa's data
          HeapCells     \* arrays the heap of the CAS takes before it is moved

ASSUME StreamsAssumption == Elements \in Nat /\ HeapCells \in Nat

\* The arrays, by the bytes of an element.
Width == [string |-> 1, int |-> 4, float |-> 4, boolean |-> 1, byte |-> 1, short |-> 2, long |-> 8, double |-> 8]
InHeap == DOMAIN Width \ {"string"}
EOF == -1
EndOfStream == [from |-> 0, bytes |-> 0, result |-> EOF]
Nothing == [from |-> 0, bytes |-> 0, result |-> 0]

VARIABLES
    ySofa,     \* [where, kind, size]: "local", "remote" or "none"; size in bytes
    yStream,   \* "none", "closed", "open": iv_psofadata or iv_pHandler
    ySize,     \* iv_size
    yPos,      \* iv_curpos, or the position of the handler
    yRead,     \* what the last read delivered and returned
    yFree,     \* room the heap has left
    yMoved,    \* the array was moved since open() took its address
    yStrayed,  \* the caller sought outside the data, or reads after the array moved
    yOutside   \* memory outside the data was read

yVars == <<ySofa, yStream, ySize, yPos, yRead, yFree, yMoved, yStrayed, yOutside>>
yHeap == <<yFree, yMoved>>

YInit ==
    /\ ySofa \in [where : {"local", "remote"}, kind : DOMAIN Width, size : {0}]
                 \cup {[where |-> w, kind |-> k, size |-> n * Width[k]] : w \in {"local", "remote"}, k \in DOMAIN Width, n \in 1 .. Elements}
    /\ yStream = "none"
    /\ ySize = 0 /\ yPos = 0
    /\ yRead = Nothing
    /\ yFree = HeapCells /\ yMoved = FALSE /\ yStrayed = FALSE /\ yOutside = FALSE

Local == ySofa.where = "local"

\* getSofaDataStream(): a stream of its own for each call.
GetSofaDataStream ==
    /\ yStream = "none"
    /\ yStream' = "closed"
    /\ UNCHANGED <<ySofa, ySize, yPos, yRead, yHeap, yStrayed, yOutside>>

\* LocalSofaDataStream::open().
OpenLocal ==
    /\ Local /\ yStream # "none"
    /\ yStream' = "open"
    /\ ySize' = ySofa.size
    /\ yPos' = 0 /\ yRead' = Nothing
    /\ yMoved' = FALSE
    /\ UNCHANGED <<ySofa, yFree, yStrayed, yOutside>>

\* RemoteSofaDataStream::open(): a handler of the library registered for the scheme;
\* without a scheme, a library or a handler an exception.
OpenRemote ==
    /\ ~Local /\ yStream = "closed"
    /\ \/ yStream' = "open" /\ ySize' = ySofa.size
       \/ UNCHANGED <<yStream, ySize>>
    /\ yPos' = 0 /\ yRead' = Nothing
    /\ UNCHANGED <<ySofa, yHeap, yStrayed, yOutside>>

\* close(): the handler stays, and is closed once more by the destructor.
Close ==
    /\ yStream = "open"
    /\ yStream' = IF Local THEN "closed" ELSE "none"
    /\ ySize' = 0 /\ yPos' = 0 /\ yRead' = Nothing
    /\ UNCHANGED <<ySofa, yHeap, yStrayed, yOutside>>

\* The destructor closes.
Delete ==
    /\ yStream # "none"
    /\ yStream' = "none"
    /\ ySize' = 0 /\ yPos' = 0 /\ yRead' = Nothing
    /\ UNCHANGED <<ySofa, yHeap, yStrayed, yOutside>>

----------------------------------------------------------------------------
(* Local reads *)

TotalStreamSizeInBytes == IF ySize = 0 THEN EOF ELSE ySize
HowManyBytesAvailable == TotalStreamSizeInBytes - yPos

\* read() refuses another element size for strings, ints and floats only.
ElementSizeAccepted(elementSize) ==
    ySofa.kind \in {"string", "int", "float"} => elementSize = Width[ySofa.kind]

AtMost(asked, available) == IF asked > available THEN available ELSE asked
\* A mutant: a read takes what it was asked for.
AsAsked(asked, available) == asked

BytesRead(asked, available) == AtMost(asked, available)

ReadLocal(elementSize, numElements) ==
    /\ Local /\ yStream = "open"
    /\ IF yPos = ySize
       THEN yRead' = EndOfStream /\ UNCHANGED <<yPos, yStrayed, yOutside>>
       ELSE /\ ElementSizeAccepted(elementSize)
            /\ LET n == BytesRead(elementSize * numElements, HowManyBytesAvailable)
               IN /\ yRead' = [from |-> yPos, bytes |-> n, result |-> n]
                  /\ yPos' = yPos + n
                  \* memcpy() takes its length as a size_t
                  /\ yOutside' = (yOutside \/ n < 0 \/ (n > 0 /\ (yPos < 0 \/ yPos + n > ySofa.size \/ yMoved)))
                  /\ yStrayed' = (yStrayed \/ yMoved)
    /\ UNCHANGED <<ySofa, yStream, ySize, yHeap>>

\* seek() sets what it is given.
SeekTo(offset, origin) ==
    CASE origin = "SEEK_SET" -> offset
      [] origin = "SEEK_CUR" -> yPos + offset
      [] origin = "SEEK_END" -> TotalStreamSizeInBytes - offset

SeekLocal(offset, origin) ==
    /\ Local /\ yStream = "open"
    /\ SeekTo(offset, origin) \in -1 .. Elements * 8 + 1
    /\ yPos' = SeekTo(offset, origin)
    /\ yRead' = Nothing
    /\ yStrayed' = (yStrayed \/ (SeekTo(offset, origin) \notin 0 .. ySize /\ ~(ySize = 0 /\ SeekTo(offset, origin) = EOF)))
    /\ UNCHANGED <<ySofa, yStream, ySize, yHeap, yOutside>>

----------------------------------------------------------------------------
(* Remote reads: what the handler has, in the byte order of the machine; a *)
(* wide element is counted, bytes are not.                                 *)
ReadRemote(elementSize, numElements) ==
    /\ ~Local /\ yStream = "open"
    /\ IF yPos = ySize
       THEN yRead' = EndOfStream /\ UNCHANGED <<yPos>>
       ELSE \E n \in 1 .. elementSize * numElements :
               /\ n <= ySize - yPos
               /\ yRead' = [from |-> yPos, bytes |-> n,
                            result |-> IF elementSize \in {2, 4, 8} THEN n \div elementSize ELSE n]
               /\ yPos' = yPos + n
    /\ UNCHANGED <<ySofa, yStream, ySize, yHeap, yStrayed, yOutside>>

SeekRemote(offset) ==
    /\ ~Local /\ yStream = "open"
    /\ offset \in 0 .. ySize
    /\ yPos' = offset /\ yRead' = Nothing
    /\ UNCHANGED <<ySofa, yStream, ySize, yHeap, yStrayed, yOutside>>

\* The heap of the arrays of this kind takes one more; it moves when it is full.
CasGrows ==
    /\ yFree > 0
    /\ yFree' = yFree - 1
    /\ yMoved' = (yMoved \/ (yFree = 1 /\ yStream = "open" /\ Local /\ ySofa.kind \in InHeap))
    /\ UNCHANGED <<ySofa, yStream, ySize, yPos, yRead, yStrayed, yOutside>>

----------------------------------------------------------------------------
YNext ==
    \/ GetSofaDataStream \/ OpenLocal \/ OpenRemote \/ Close \/ Delete \/ CasGrows
    \/ \E elementSize \in {1, 2, 4, 8}, numElements \in 1 .. 2 :
          ReadLocal(elementSize, numElements) \/ ReadRemote(elementSize, numElements)
    \/ \E offset \in -1 .. Elements * 8, origin \in {"SEEK_SET", "SEEK_CUR", "SEEK_END"} : SeekLocal(offset, origin)
    \/ \E offset \in 0 .. Elements * 8 : SeekRemote(offset)

YSpec == YInit /\ [][YNext]_yVars

----------------------------------------------------------------------------
(* As long as the caller seeks inside the data, and reads no array the CAS *)
(* has moved since open(), a stream gives out the data from where it is,   *)
(* in order and nothing twice, and reads no memory outside of it.          *)
ReadsStayInside ==
    ~yStrayed => /\ ~yOutside
                 /\ yRead.result > 0 => yRead.from >= 0 /\ yRead.from + yRead.bytes = yPos /\ yPos <= ySofa.size
=============================================================================

------------------------------ MODULE Strings -------------------------------
(***************************************************************************)
(* structures::string (shared/string.cpp), whose storage is replaced by    *)
(* every concat and whose hash is kept beside it, and the helpers on       *)
(* zero-terminated texts (shared/str.cpp, shared/algorithm.cpp).           *)
(*                                                                         *)
(* A char* is the sequence of its characters, none of them 0.  The hash is *)
(* HashWord numbers wide instead of 2^32.                                  *)
(***************************************************************************)
EXTENDS Integers, Sequences
Sequence == INSTANCE SequencesExt

CONSTANTS
    Char,           \* characters, Delim among them
    Delim,          \* what texts are split by
    MaxString,      \* bound on the length of a string
    FnvPrime, FnvBasis, HashWord,
    XorOf(_, _)     \* the exclusive or of the bits of two numbers

Terminator == 0

ASSUME StringsAssumption ==
    /\ Char \subseteq Nat \ {Terminator}
    /\ Delim \in Char
    /\ MaxString \in Nat
    /\ FnvPrime \in Nat /\ FnvBasis \in Nat /\ HashWord \in Nat \ {0}

VARIABLES
    string,         \* the object: storage, with its terminator, length and hash
    asked,          \* the operation whose answer strReply is, and its argument
    strReply        \* what the last operation returned

strVars == <<string, asked, strReply>>

HashStringFnv1a(key) ==
    Sequence!FoldLeft(LAMBDA hash, code : (XorOf(hash, code) * FnvPrime) % HashWord, FnvBasis, key)

\* The zero-terminated text at the start of a storage.
TextIn(storage) ==
    LET end == CHOOSE i \in DOMAIN storage :
                    storage[i] = Terminator /\ \A j \in 1 .. i - 1 : storage[j] # Terminator
    IN  SubSeq(storage, 1, end - 1)

\* str::length.
Length(key) == Len(key)

\* The constructor of a text and of a character.
NewString(key) ==
    [storage |-> Append(key, Terminator), length |-> Length(key) + 1,
     hash |-> HashStringFnv1a(key)]

\* Faulty variant: the old terminator stays between the two texts.
ConcatenatedKeepingEnd(s, src) ==
    LET storage == s.storage \o src \o <<Terminator>>
    IN  [storage |-> storage, length |-> Len(storage),
         hash |-> HashStringFnv1a(TextIn(storage))]

\* concat of a text: length - 1 characters of the old storage, the new ones,
\* a terminator, and the hash of the result.
Concatenated(s, src) ==
    LET storage == SubSeq(s.storage, 1, s.length - 1) \o src \o <<Terminator>>
    IN  [storage |-> storage, length |-> Length(src) + s.length,
         hash |-> HashStringFnv1a(TextIn(storage))]

\* The empty text is no prefix.
StartsWith(s, key) ==
    /\ key # <<>>
    /\ \A i \in DOMAIN key : i <= Len(s.storage) /\ s.storage[i] = key[i]

\* split_by: a part ends at each delimiter and at the terminator.
Cut(s, delim, cuts, i) ==
    IF s.storage[i] \in {delim, Terminator}
    THEN [parts |-> Append(cuts.parts, SubSeq(s.storage, cuts.prev + 1, i - 1)), prev |-> i]
    ELSE cuts

SplitBy(s, delim) ==
    LET cuts[i \in 0 .. s.length] ==
            IF i = 0 THEN [parts |-> <<>>, prev |-> 0] ELSE Cut(s, delim, cuts[i - 1], i)
    IN  cuts[s.length].parts

\* join_some: the third text is left out when it is empty.  The storage that
\* is returned has been freed and its last character is not written.
JoinSome(delim, a, b, c) ==
    LET between == IF delim = Terminator THEN <<>> ELSE <<delim>>
        third == IF c = <<>> THEN <<>> ELSE between \o c
    IN  [written |-> a \o between \o b \o third,
         size |-> 1 + Length(a) + Length(b) + Len(between) + Len(third)]
-----------------------------------------------------------------------------
(***************************************************************************)
(* Operations on one string.                                               *)
(***************************************************************************)
Texts == UNION {[1 .. n -> Char] : n \in 0 .. 2}

StrInit ==
    /\ string = NewString(<<>>)
    /\ asked = <<"none">>
    /\ strReply = <<>>

\* The constructors make a string of a text or of one character.
StrNew(key) ==
    /\ string' = NewString(key)
    /\ asked' = <<"none">> /\ strReply' = <<>>

\* Bounded: strings grow up to MaxString characters.
StrConcat(src) ==
    /\ string.length - 1 + Len(src) <= MaxString
    /\ string' = Concatenated(string, src)
    /\ asked' = <<"none">> /\ strReply' = <<>>

\* A question leaves the string alone.
Answer(what, r) ==
    /\ asked' = what
    /\ strReply' = r
    /\ UNCHANGED string

YesOrNo(b) == IF b THEN <<"yes">> ELSE <<"no">>

StrStartsWith(key) == Answer(<<"starts", key>>, YesOrNo(StartsWith(string, key)))
StrSplitBy(delim) == Answer(<<"split", delim>>, SplitBy(string, delim))
\* operator==, hash_equal_to.
StrEquals(key) == Answer(<<"equals", key>>, YesOrNo(HashStringFnv1a(key) = string.hash))
\* operator+ on a copy of the string.
StrPlus(key) ==
    Answer(<<"plus", key>>, Concatenated(NewString(TextIn(string.storage)), key).storage)
StrJoinSome(key, third) ==
    Answer(<<"join", key, third>>,
           JoinSome(Delim, TextIn(string.storage), key, third).written)
StrCharCopy == Answer(<<"copy">>, TextIn(string.storage))
StrCharAt(i) == Answer(<<"at", i>>, <<string.storage[i + 1]>>)

StrNext ==
    \/ \E key \in Texts : StrNew(key) \/ StrConcat(key) \/ StrStartsWith(key)
                           \/ StrEquals(key) \/ StrPlus(key)
    \/ \E key \in Texts : StrJoinSome(key, <<>>) \/ StrJoinSome(<<Delim>>, key)
    \/ StrSplitBy(Delim) \/ StrCharCopy
    \/ \E i \in 0 .. string.length - 1 : StrCharAt(i)

StrSpec == StrInit /\ [][StrNext]_strVars
-----------------------------------------------------------------------------
\* After any number of concatenations length, terminator and hash are those of
\* the text: the hash, which alone decides whether two strings are equal, is
\* never that of an earlier text, and a copy up to the terminator is whole.
StringsHoldTheirText ==
    /\ string.length = Len(string.storage)
    /\ TextIn(string.storage) = SubSeq(string.storage, 1, string.length - 1)
    /\ string.hash = HashStringFnv1a(TextIn(string.storage))
    /\ asked[1] = "copy" => Append(strReply, Terminator) = string.storage

\* The parts, joined by the delimiter.
Glued(parts, whole, k) == IF k = 1 THEN parts[1] ELSE whole \o <<Delim>> \o parts[k]

Joined(parts) ==
    LET whole[k \in 0 .. Len(parts)] ==
            IF k = 0 THEN <<>> ELSE Glued(parts, whole[k - 1], k)
    IN  whole[Len(parts)]

\* Splitting loses and invents nothing: joined again, the parts are the text,
\* with empty parts at both ends and between adjacent delimiters, and none of
\* them holds a delimiter.
SplitsIntoParts ==
    asked[1] = "split" =>
        /\ Joined(strReply) = TextIn(string.storage)
        /\ \A k \in DOMAIN strReply : \A i \in DOMAIN strReply[k] : strReply[k][i] # Delim

\* The string class keeps its text, and the helpers on texts their input.
TextsAreKept == StringsHoldTheirText /\ SplitsIntoParts
=============================================================================

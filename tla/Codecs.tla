------------------------------- MODULE Codecs -------------------------------
(***************************************************************************)
(* The encodings of core.cpp, over bytes (0..255) and decimal digits.      *)
(* Buffers are taken to be as large as their callers make them.            *)
(***************************************************************************)
EXTENDS Integers, Sequences, SequencesExt, FiniteSetsExt

Byte == 0..255

-----------------------------------------------------------------------------
(* Russian letters.                                                         *)

c_win1251 == <<
  233, 246, 243, 234, 229, 237, 227, 248, 249, 231, 245, 250, 244, 251, 226, 224,
  239, 240, 238, 235, 228, 230, 253, 255, 247, 241, 236, 232, 242, 252, 225, 254,
  201, 214, 211, 202, 197, 205, 195, 216, 217, 199, 213, 218, 212, 219, 194, 192,
  207, 208, 206, 203, 196, 198, 221, 223, 215, 209, 204, 200, 210, 220, 193, 222>>

c_koi8r == <<
  202, 195, 213, 203, 197, 206, 199, 219, 221, 218, 200, 223, 198, 217, 215, 193,
  208, 210, 207, 204, 196, 214, 220, 209, 222, 211, 205, 201, 212, 216, 194, 192,
  234, 227, 245, 235, 229, 238, 231, 251, 253, 250, 232, 255, 230, 249, 247, 225,
  240, 242, 239, 236, 228, 246, 252, 241, 254, 243, 237, 233, 244, 248, 226, 224>>

\* The first b with c = from[b] selects to[b]; other bytes are copied.
Recode(message, from, to) ==
  [a \in 1..Len(message) |->
     LET b == SelectInSeq(from, LAMBDA c : c = message[a])
     IN IF b = 0 THEN message[a] ELSE to[b]]

WIN1251TOKOI8R(message) == Recode(message, c_win1251, c_koi8r)
KOI8RTOWIN1251(message) == Recode(message, c_koi8r, c_win1251)

\* \n \r space $ % + , / ; = and the KOI8-R letters, Yo among them, which the tables miss.
UrlTable == {10, 13, 32, 36, 37, 43, 44, 47, 59, 61, 163, 179} \cup 192..255

UrlValue(c) == CASE c = 179 -> 168 [] c = 163 -> 184 [] OTHER -> KOI8RTOWIN1251(<<c>>)[1]

\* isalnum() with +256 < 192 holds for no byte: what has no code is copied.  A code is the
\* character "%" and two hexadecimal digits, here <<37, high, low>>.
ConvertToUrlCode(message) ==
  FlattenSeq([i \in 1..Len(message) |->
     IF message[i] \in UrlTable
     THEN <<37, <<UrlValue(message[i]) \div 16, UrlValue(message[i]) % 16>>>>
     ELSE <<message[i]>>])

-----------------------------------------------------------------------------
(* Decimal numbers.                                                         *)

RECURSIVE Digits(_)
Digits(n) == IF n < 10 THEN <<n>> ELSE Append(Digits(n \div 10), n % 10)

MAX_HASH_NUMBER == 52

\* Pairs of digits below 52 become a letter, given by its place in HASH_CODES.
RECURSIVE HashFrom(_)
HashFrom(d) ==
  IF d = <<>> THEN <<>>
  ELSE IF Len(d) > 1 /\ d[1] * 10 + d[2] < MAX_HASH_NUMBER
  THEN <<[letter |-> d[1] * 10 + d[2]]>> \o HashFrom(Tail(Tail(d)))
  ELSE <<[digit |-> d[1]]>> \o HashFrom(Tail(d))

NumberToHashCode(number) == HashFrom(Digits(number))

\* Two digits to the byte, the first one alone when their number is odd; what the buffer
\* cannot take is dropped.
iso8583_code(number, buff_size) ==
  LET d == IF Len(Digits(number)) % 2 = 1 THEN <<0>> \o Digits(number) ELSE Digits(number)
  IN [i \in 1..Min({buff_size, Len(d) \div 2}) |-> d[2 * i - 1] * 16 + d[2 * i]]

iso8583_decode(buff) ==
  FoldLeft(LAMBDA r, c : (r * 100 + (c \div 16) * 10) + (c % 16), 0, buff)

-----------------------------------------------------------------------------
(* Base 64: a sextet stands for its character, PAD for "=".                 *)

PAD == 64

\* Variant of B64Group: the sextet that the first two bytes share loses the first one's bits.
B64GroupNarrow(b) ==
  CASE Len(b) = 1 -> <<b[1] \div 4, ((b[1] * 16) % 64), PAD, PAD>>
    [] Len(b) = 2 -> <<b[1] \div 4, b[2] \div 16, ((b[2] * 4) % 64), PAD>>
    [] OTHER -> <<b[1] \div 4, b[2] \div 16, ((b[2] * 4) % 64) + b[3] \div 64, b[3] % 64>>

\* The body of the loop; & 0x30 and & 0x3c keep what % 64 does.
B64Group(b) ==
  CASE Len(b) = 1 -> <<b[1] \div 4, ((b[1] * 16) % 64), PAD, PAD>>
    [] Len(b) = 2 -> <<b[1] \div 4, ((b[1] * 16) % 64) + b[2] \div 16, ((b[2] * 4) % 64), PAD>>
    [] OTHER -> <<b[1] \div 4, ((b[1] * 16) % 64) + b[2] \div 16, ((b[2] * 4) % 64) + b[3] \div 64, b[3] % 64>>

\* Pieces of n elements, the last one shorter.
Pieces(s, n) ==
  [g \in 1..((Len(s) + n - 1) \div n) |-> SubSeq(s, n * (g - 1) + 1, Min({n * g, Len(s)}))]

B64encode(input) == FlattenSeq([g \in 1..Len(Pieces(input, 3)) |-> B64Group(Pieces(input, 3)[g])])
B64encodeMS(input) == B64encode(input)

\* Three bytes for every four characters, whatever the padding says; a character that is
\* not of the alphabet leaves zero bits.
B64Ungroup(c) ==
  LET j(k) == IF k > Len(c) \/ c[k] = PAD THEN 0 ELSE c[k]
  IN <<j(1) * 4 + j(2) \div 16, ((j(2) * 16) % 256) + j(3) \div 4, ((j(3) * 64) % 256) + j(4)>>

\* -1 when a group begins at or beyond outmax.
B64decode(input, outmax) ==
  LET groups == Pieces(input, 4)
  IN IF 3 * (Len(groups) - 1) >= outmax /\ groups # <<>> THEN <<-1>>
     ELSE FlattenSeq([g \in 1..Len(groups) |-> B64Ungroup(groups[g])])

-----------------------------------------------------------------------------
(* Fields of a text.                                                        *)

\* strstr(): the offset of the first occurrence of part at or after from, or -1.
strstr(text, part, from) ==
  LET found == {i \in from..(Len(text) - Len(part)) : SubSeq(text, i + 1, i + Len(part)) = part}
  IN IF found = {} THEN -1 ELSE Min(found)

\* ParseX$Params: what lies between the separators param_num - 1 and param_num.
RECURSIVE Separators(_, _, _)
Separators(data, ptr_prev, param_num) ==
  LET ptr == strstr(data, <<"$">>, ptr_prev)
  IN IF param_num = 0
     THEN SubSeq(data, ptr_prev + 1, IF ptr = -1 THEN Len(data) ELSE ptr)
     ELSE IF ptr = -1 THEN <<>> ELSE Separators(data, ptr + 1, param_num - 1)

ParseXParams(data, param_num) == Separators(data, 0, param_num)

XMLSimpleParse(text, tag_start, tag_end) ==
  LET ptr1 == strstr(text, tag_start, 0) + Len(tag_start)
      ptr2 == strstr(text, tag_end, ptr1)
  IN IF strstr(text, tag_start, 0) = -1 \/ ptr2 = -1 THEN <<>>
     ELSE SubSeq(text, ptr1 + 1, ptr2)

=============================================================================

-------------------------------- MODULE CLib --------------------------------
(* The C library's number parsing and formatting: strtoul and its family,   *)
(* the parsers behind sscanf, vsnprintf and vsscanf (lib/lib.c,             *)
(* lib/printf.c).                                                           *)
(*                                                                          *)
(* A string is the sequence of its character codes without the NUL, a       *)
(* format the sequence of its directives.  Each routine is an operator that *)
(* follows the code; a call is a step that records what was asked and what  *)
(* came back, and the property compares that with what a reader of the      *)
(* text would say.                                                          *)
EXTENDS Integers, Sequences, SequencesExt, FiniteSets, FiniteSetsExt, TLC

CONSTANTS
  WORD_BITS, LOW_BITS,   \* unsigned long, and the low part strtoul splits off
  INT_BITS,              \* int
  Texts, Bases,          \* strings and bases given to the number parsers
  Numbers,               \* numbers formatted and read back
  Widths, Precisions,    \* field widths and precisions, negative ones included
  Buffers                \* sizes of the buffer formatted into

\* The low part times a base plus a carry stays below the high part's width.
ASSUME CLibAssumption ==
  /\ LOW_BITS \in 1..WORD_BITS /\ INT_BITS \in 2..WORD_BITS
  /\ Bases \subseteq {0} \cup (2..2^LOW_BITS)

VARIABLE call            \* the last call: routine, arguments, result
clVars == <<call>>

ULONG_MAX == 2^WORD_BITS - 1
LONG_MAX == 2^(WORD_BITS - 1) - 1
LONG_MIN == -(2^(WORD_BITS - 1))
AsUnsigned(v, bits) == v % 2^bits
AsSigned(v, bits) ==
  LET u == v % 2^bits IN IF u >= 2^(bits - 1) THEN u - 2^bits ELSE u

\* ---- Characters ----
At(s, i) == IF i \in DOMAIN s THEN s[i] ELSE 0
isspace(c) == c \in {9, 10, 11, 12, 13, 32}
isdigit(c) == c \in 48..57
isupper(c) == c \in 65..90
islower(c) == c \in 97..122
isalnum(c) == isdigit(c) \/ isupper(c) \/ islower(c)
isxdigit(c) == isdigit(c) \/ c \in 65..70 \/ c \in 97..102
\* The first position from i on whose character does not satisfy P.
SkipWhile(P(_), s, i) == Min({j \in i..(Len(s) + 1) : j = Len(s) + 1 \/ ~P(s[j])})

\* ---- Parsing numbers ----
DigitOf(c) ==
  IF c >= 97 THEN c - 87 ELSE IF c >= 65 THEN c - 55
  ELSE IF c <= 57 THEN (c - 48) % 256 ELSE 255

\* strtoul: white space and a sign, ...
Signed(s) ==
  LET i0 == SkipWhile(isspace, s, 1)
  IN  [neg |-> At(s, i0) = 45, orig |-> IF At(s, i0) \in {43, 45} THEN i0 + 1 ELSE i0]
\* ... the prefix of the base, ...
Based(s, sign, base0) ==
  LET orig == sign.orig
      hex == /\ base0 \in {0, 16} /\ At(s, orig) = 48
             /\ At(s, orig + 1) \in {88, 120} /\ isxdigit(At(s, orig + 2))
  IN  [neg |-> sign.neg, orig |-> orig, first |-> IF hex THEN orig + 2 ELSE orig,
       base |-> IF hex \/ base0 = 16 THEN 16
                ELSE IF base0 # 0 THEN base0 ELSE IF At(s, orig) = 48 THEN 8 ELSE 10]
\* ... and digits, accumulated in two parts to see the overflow.
Accumulate(s, from, last, base) ==
  LET low == 2^LOW_BITS
      Add(acc, i) ==
        LET x == ((acc.v % low) * base) + DigitOf(s[i])
            w == ((acc.v \div low) * base) + (x \div low)
        IN  [v |-> AsUnsigned((w * low) + (x % low), WORD_BITS),
             overflow |-> acc.overflow \/ w > ULONG_MAX \div low]
  IN  FoldLeft(Add, [v |-> 0, overflow |-> FALSE], [k \in 1..(last - from) |-> from + k - 1])
\* end is the position after what was read, 1 when nothing was.
Unsigned(b, last, read) ==
  CASE last = b.orig -> [v |-> 0, end |-> 1, errno |-> "EINVAL"]
    [] last # b.orig /\ read.overflow -> [v |-> ULONG_MAX, end |-> last, errno |-> "ERANGE"]
    [] OTHER -> [v |-> IF b.neg THEN AsUnsigned(-read.v, WORD_BITS) ELSE read.v,
                 end |-> last, errno |-> "0"]
Converted(s, b) ==
  LET last == SkipWhile(LAMBDA c : DigitOf(c) < b.base, s, b.first)
  IN  Unsigned(b, last, Accumulate(s, b.first, last, b.base))
strtoul(s, base0) == Converted(s, Based(s, Signed(s), base0))

\* strtol: the sign is taken off, the rest is strtoul's, and then the range.
Ranged(neg, r, end) ==
  IF r.v >= 2^(WORD_BITS - 1)
  THEN IF r.v = 2^(WORD_BITS - 1) /\ neg THEN [v |-> LONG_MIN, end |-> end, errno |-> "0"]
       ELSE [v |-> IF neg THEN LONG_MIN ELSE LONG_MAX, end |-> end, errno |-> "ERANGE"]
  ELSE [v |-> IF neg THEN -r.v ELSE r.v, end |-> end, errno |-> r.errno]
RangedFrom(neg, from, r) == Ranged(neg, r, IF r.end = 1 THEN 1 ELSE from + r.end - 1)
strtol(s, base) ==
  LET i0 == SkipWhile(isspace, s, 1)
      neg == At(s, i0) = 45 /\ isalnum(At(s, i0 + 1))
      from == IF neg THEN i0 + 1 ELSE i0
  IN  RangedFrom(neg, from, strtoul(SubSeq(s, from, Len(s)), base))

\* Without a look at the range: a sum that does not fit a long wraps, as the
\* machine's does; atoi sums in a long too and cuts the sum to an int.
Digits(s, i) ==
  FoldLeft(LAMBDA v, c : AsSigned((v * 10) + (c - 48), WORD_BITS), 0,
           SubSeq(s, i, SkipWhile(isdigit, s, i) - 1))
atol(s) ==
  LET i == SkipWhile(isspace, s, 1) IN
  CASE At(s, i) = 45 -> AsSigned(-Digits(s, i + 1), WORD_BITS) [] At(s, i) = 43 -> Digits(s, i + 1)
    [] OTHER -> Digits(s, i)
atoi(s) == AsSigned(atol(s), INT_BITS)

\* The parsers behind sscanf: no white space, no range check.
simple_strtoul(s, base0) ==
  LET zero == base0 = 0 /\ At(s, 1) = 48
      hex == zero /\ At(s, 2) = 120 /\ isxdigit(At(s, 3))
      base == IF hex THEN 16 ELSE IF zero THEN 8 ELSE IF base0 = 0 THEN 10 ELSE base0
      first == IF hex THEN 3 ELSE IF zero THEN 2 ELSE 1
      last == SkipWhile(LAMBDA c : isxdigit(c) /\ DigitOf(c) < base, s, first)
  IN  [v |-> FoldLeft(LAMBDA v, c : AsUnsigned((v * base) + DigitOf(c), WORD_BITS), 0,
                      SubSeq(s, first, last - 1)),
       end |-> last]
simple_strtol(s, base) ==
  LET r == simple_strtoul(IF At(s, 1) = 45 THEN Tail(s) ELSE s, base) IN
  IF At(s, 1) = 45 THEN [v |-> AsSigned(-r.v, WORD_BITS), end |-> r.end + 1]
  ELSE [v |-> AsSigned(r.v, WORD_BITS), end |-> r.end]

\* ---- Formatting ----
Repeat(c, n) == [k \in 1..(IF n > 0 THEN n ELSE 0) |-> c]
digit[n \in 0..15] == IF n < 10 THEN 48 + n ELSE 87 + n
Reversed(num, base) ==    \* tmp, the digits backwards
  LET f[n \in Nat] == IF n = 0 THEN << >> ELSE <<digit[n % base]>> \o f[n \div base]
  IN  IF num = 0 THEN <<48>> ELSE f[num]

\* number: the text of num for a conversion with these flags.
number(num, base, size0, precision0, type0) ==
  LET type == IF "LEFT" \in type0 THEN type0 \ {"ZEROPAD"} ELSE type0
      sign == IF "SIGN" \notin type THEN << >>
              ELSE IF num < 0 THEN <<45>>
              ELSE IF "PLUS" \in type THEN <<43>> ELSE IF "SPACE" \in type THEN <<32>> ELSE << >>
      prefix == IF "SPECIAL" \notin type THEN << >>
                ELSE IF base = 16 THEN <<48, 120>> ELSE IF base = 8 THEN <<48>> ELSE << >>
      tmp == Reversed(IF num < 0 THEN -num ELSE num, base)
      precision == Max({Len(tmp), precision0})
      size == size0 - Len(sign) - Len(prefix) - precision
      pad == Repeat(32, size)
      zeros == Repeat(48, precision - Len(tmp))
  IN  (IF type \cap {"ZEROPAD", "LEFT"} = {} THEN pad ELSE << >>)
      \o sign \o prefix
      \o (IF "ZEROPAD" \in type THEN Repeat(48, size) ELSE << >>)
      \o zeros \o Reverse(tmp)
      \o (IF "LEFT" \in type THEN pad ELSE << >>)

\* The text of %s and %c in a field.
padded(text, width, left) ==
  LET pad == Repeat(32, width - Len(text)) IN IF left THEN text \o pad ELSE pad \o text

\* One directive of a format with its argument; n characters are in front of
\* it.  A negative width, given with *, sets the LEFT flag.  %n stores n and
\* has no text.
Directive(d, arg, n) ==
  LET flags == d.flags \cup (IF d.width < -1 THEN {"LEFT"} ELSE {})
      width == IF d.width < -1 THEN -d.width ELSE d.width
  IN CASE d.conv = "text" -> d.text
       [] d.conv = "s" ->
            padded(IF d.precision >= 0 THEN SubSeq(arg, 1, Min({d.precision, Len(arg)})) ELSE arg,
                   width, "LEFT" \in flags)
       [] d.conv = "c" -> padded(arg, width, "LEFT" \in flags)
       [] d.conv = "n" -> << >>
       [] d.conv = "d" -> number(AsSigned(arg, d.bits), 10, width, d.precision, flags \cup {"SIGN"})
       [] d.conv = "u" -> number(AsUnsigned(arg, d.bits), 10, width, d.precision, flags)
       [] d.conv = "o" -> number(AsUnsigned(arg, d.bits), 8, width, d.precision, flags)
       [] d.conv = "x" -> number(AsUnsigned(arg, d.bits), 16, width, d.precision, flags)
       [] d.conv = "p" ->
            LET u == AsUnsigned(arg, WORD_BITS) IN
            IF width = -1 THEN number(u, 16, WORD_BITS \div 4, d.precision, flags \cup {"ZEROPAD"})
            ELSE number(u, 16, width, d.precision, flags)

\* vsnprintf writes what fits (str <= end, the last place of the buffer) and
\* then the terminator, over the last character when there is no room.  buf is
\* the memory from the buffer on; the count returned is the length of it all.
Unwritten == -1
vsnprintf(size, fmt, args) ==
  LET text == FoldLeft(LAMBDA acc, k : acc \o Directive(fmt[k], args[k], Len(acc)),
                       << >>, [k \in DOMAIN fmt |-> k])
      put == [i \in 1..(Len(text) + 2) |-> IF i <= Len(text) /\ i <= size THEN text[i] ELSE Unwritten]
      zero == IF Len(text) + 1 <= size THEN Len(text) + 1 ELSE size
  IN  [buf |-> IF zero > 0 THEN [put EXCEPT ![zero] = 0] ELSE put, count |-> Len(text)]

\* ---- Scanning ----
\* What a directive of vsscanf does: got is what it stored, at the next
\* character.  The width of a number is read and not used, and %* ends at the
\* next white space of both texts.
Store(st, next, v) == [st EXCEPT !.at = next, !.got = Append(@, v)]
Stop(st) == [st EXCEPT !.stop = TRUE]
ScanNumber(st, buf, d) ==
  LET at == SkipWhile(isspace, buf, st.at)
      base == CASE d.conv = "o" -> 8 [] d.conv = "x" -> 16 [] d.conv = "i" -> 0 [] OTHER -> 10
      is_sign == d.conv \in {"i", "d"}
      digit1 == At(buf, IF is_sign /\ At(buf, at) = 45 THEN at + 1 ELSE at)
      rest == SubSeq(buf, at, Len(buf))
      r == IF is_sign THEN simple_strtol(rest, base) ELSE simple_strtoul(rest, base)
      v == IF is_sign THEN AsSigned(r.v, d.bits) ELSE AsUnsigned(r.v, d.bits)
      ok == CASE base = 16 -> isxdigit(digit1) [] base = 8 -> digit1 \in 48..55
              [] OTHER -> isdigit(digit1)
  IN  IF ok THEN Store(st, at + r.end - 1, v) ELSE Stop(st)
ScanDirective(st, buf, d) ==
  LET here == At(buf, st.at)
      word == SkipWhile(isspace, buf, st.at)
      past == Min({SkipWhile(LAMBDA c : ~isspace(c), buf, word)} \cup
                  (IF d.width >= 0 THEN {word + d.width} ELSE {}))
      chars == Min({st.at + Max({d.width, 1}), Len(buf) + 1})
  IN CASE d.conv = "space" -> [st EXCEPT !.at = word]
       [] d.conv \in {"text", "%"} ->
            IF here = d.text[1] THEN [st EXCEPT !.at = @ + 1] ELSE Stop(st)
       [] d.conv = "*" -> [st EXCEPT !.at = SkipWhile(LAMBDA c : ~isspace(c), buf, @)]
       [] d.conv = "c" -> Store(st, chars, SubSeq(buf, st.at, chars - 1))
       [] d.conv = "s" -> Store(st, past, SubSeq(buf, word, past - 1))
       [] OTHER -> ScanNumber(st, buf, d)
\* Directives are taken while both the format and the text have characters.
vsscanf(buf, fmt) ==
  FoldLeft(LAMBDA st, d : IF st.stop \/ st.at > Len(buf) THEN Stop(st) ELSE ScanDirective(st, buf, d),
           [at |-> 1, got |-> << >>, stop |-> FALSE], fmt)

\* ---- Calls ----
Conv(conv, flags, width, precision, bits) ==
  [conv |-> conv, flags |-> flags, width |-> width, precision |-> precision, bits |-> bits]
Literal(text) == [conv |-> "text", text |-> text]
Plain(conv, bits) == Conv(conv, {}, -1, -1, bits)

ClInit == call = [routine |-> "none"]

ParseNumber == \E s \in Texts, base \in Bases :
  call' = [routine |-> "parse", s |-> s, base |-> base,
           strtoul |-> strtoul(s, base), strtol |-> strtol(s, base),
           simple |-> simple_strtoul(s, base), atol |-> atol(s), atoi |-> atoi(s)]
FormatNumber ==
  \E n \in Numbers, conv \in {"d", "u", "o", "x", "p"}, width \in Widths, precision \in Precisions,
     flags \in SUBSET {"LEFT", "PLUS", "ZEROPAD", "SPECIAL"} :
    LET d == Conv(conv, flags, width, precision, WORD_BITS) IN
    call' = [routine |-> "format", n |-> AsSigned(n, WORD_BITS), d |-> d,
             text |-> Directive(d, AsSigned(n, WORD_BITS), 0)]
\* A number, a word and a number are printed and read back from the buffer.
PrintFormat ==
  <<Plain("d", INT_BITS), Literal(<<47>>), Plain("s", 0), Literal(<<32>>), Plain("x", WORD_BITS)>>
ScanFormat ==
  [k \in 1..5 |-> IF k = 4 THEN [conv |-> "space", width |-> -1] ELSE PrintFormat[k] @@ [width |-> -1]]
UpToNul(buf, n) == SubSeq(buf, 1, Min({i \in 1..(n + 1) : i = n + 1 \/ buf[i] = 0}) - 1)
Scanned(out) == [out |-> out, got |-> vsscanf(UpToNul(out.buf, out.count), ScanFormat).got]
PrintAndScan ==
  \E a, b \in Numbers, size \in Buffers, word \in Texts :
    /\ Len(word) \in 1..2 /\ \A i \in DOMAIN word : ~isspace(word[i])
    /\ size > 0
    /\ call' = [routine |-> "scan", a |-> a, b |-> b, size |-> size, word |-> word]
               @@ Scanned(vsnprintf(size, PrintFormat, <<a, << >>, word, << >>, b>>))

ClNext == call.routine = "none" /\ (ParseNumber \/ FormatNumber \/ PrintAndScan)

\* ---- Properties ----
\* The numerals a text begins with: white space, a sign, the prefix of the base
\* and digits, as many or as few as one likes.
Sum(ds, base) == FoldLeft(LAMBDA v, c : (v * base) + DigitOf(c), 0, ds)
Numerals(s, base0) ==
  LET i0 == SkipWhile(isspace, s, 1)
      signed == At(s, i0) \in {43, 45}
      first == IF signed THEN i0 + 1 ELSE i0
      prefixed == At(s, first) = 48 /\ At(s, first + 1) \in {88, 120}
      Radix(skip) == CASE base0 # 0 -> base0 [] base0 = 0 /\ skip = 2 -> 16
                       [] OTHER -> IF At(s, first) = 48 THEN 8 ELSE 10
      Fits(skip, to) == \A k \in (first + skip)..(to - 1) : DigitOf(s[k]) < Radix(skip)
      Numeral(skip, to) ==
        [to |-> to, n |-> (IF At(s, i0) = 45 THEN -1 ELSE 1)
                          * Sum(SubSeq(s, first + skip, to - 1), Radix(skip))]
  IN {Numeral(x[1], x[2]) : x \in {y \in {0, 2} \X (2..(Len(s) + 1)) :
          /\ y[2] > first + y[1] /\ Fits(y[1], y[2])
          /\ y[1] = 2 => prefixed /\ base0 \in {0, 16}}}
Clamp(n, lo, hi) == IF n < lo THEN lo ELSE IF n > hi THEN hi ELSE n

ParseAgrees(c) ==
  LET ns == Numerals(c.s, c.base)
      m == CHOOSE x \in ns : \A y \in ns : y.to <= x.to
      over == m.n \notin -ULONG_MAX..ULONG_MAX
      decimal == Numerals(c.s, 10)
      whole == (CHOOSE x \in decimal : \A y \in decimal : y.to <= x.to).n
  IN  /\ IF ns = {}
         THEN c.strtoul = [v |-> 0, end |-> 1, errno |-> "EINVAL"] /\ c.strtol = c.strtoul
         ELSE /\ c.strtoul = [v |-> IF over THEN ULONG_MAX ELSE AsUnsigned(m.n, WORD_BITS),
                              end |-> m.to, errno |-> IF over THEN "ERANGE" ELSE "0"]
              /\ c.strtol = [v |-> Clamp(m.n, LONG_MIN, LONG_MAX), end |-> m.to,
                             errno |-> IF m.n \in LONG_MIN..LONG_MAX THEN "0" ELSE "ERANGE"]
      /\ decimal = {} => c.atol = 0 /\ c.atoi = 0
      /\ decimal # {} =>
           /\ whole \in LONG_MIN..LONG_MAX => c.atol = whole
           /\ whole = AsSigned(whole, INT_BITS) => c.atoi = whole
      /\ isalnum(At(c.s, 1)) /\ At(c.s, 2) # 88 /\ (c.base = 16 => At(c.s, 2) # 120) =>
           c.simple = IF ns = {} THEN [v |-> 0, end |-> 1]
                      ELSE [v |-> AsUnsigned(m.n, WORD_BITS), end |-> m.to]

FormatAgrees(c) ==
  LET width == CASE c.d.conv = "p" /\ c.d.width = -1 -> WORD_BITS \div 4
                 [] c.d.width < -1 -> -c.d.width [] OTHER -> c.d.width
      body == SelectSeq(c.text, LAMBDA ch : ch # 32)
      radix == CASE c.d.conv = "o" -> 8 [] c.d.conv \in {"x", "p"} -> 16 [] OTHER -> 10
  IN  /\ IF c.d.conv = "d" THEN strtol(body, radix).v = c.n
         ELSE strtoul(body, radix).v = AsUnsigned(c.n, WORD_BITS)
      /\ Len(c.text) >= width /\ (Len(c.text) > width => body = c.text)
      /\ IF "LEFT" \in c.d.flags \/ c.d.width < -1 THEN c.text[1] # 32
         ELSE c.text[Len(c.text)] # 32

ScanAgrees(c) ==
  LET kept == Min({c.out.count, c.size - 1}) IN
  /\ \A i \in 1..kept : c.out.buf[i] > 0
  /\ c.out.buf[kept + 1] = 0
  /\ \A i \in (c.size + 1)..(c.out.count + 1) : c.out.buf[i] = Unwritten
  /\ c.out.count < c.size =>
       c.got = <<AsSigned(c.a, INT_BITS), c.word, AsUnsigned(c.b, WORD_BITS)>>

\* The conversions of the library agree with one another and with what a reader
\* sees in the text: strtoul, strtol, atol, atoi and the parsers of sscanf give
\* the value and the end of the longest numeral and report the ones out of
\* range; a number printed in a field of any width, precision and flags is read
\* back from it; and vsnprintf never writes past its buffer, always terminates
\* it and, if it fits, vsscanf reads back what was printed.
ConversionsAgree ==
  CASE call.routine = "parse" -> ParseAgrees(call)
    [] call.routine = "format" -> FormatAgrees(call)
    [] call.routine = "scan" -> ScanAgrees(call)
    [] OTHER -> TRUE

-----------------------------------------------------------------------------
(* The C library's memory, string and sorting routines whose loops have      *)
(* cases: quicksort, memmove, strncat, strstr, strtok_r, the comparisons and *)
(* ffs (lib/lib.c).                                                          *)
(*                                                                           *)
(* Strings are sequences of positive character codes without the NUL;        *)
(* memory is a sequence.  A call is a step that records what was asked and   *)
(* what came back, and the property compares that with what the routine is   *)
(* for.                                                                      *)

CONSTANTS
  Strings,     \* strings passed
  Arrays,      \* arrays to sort
  MemSize,     \* bytes of memory moved about in
  FfsWords        \* words whose first bit ffs looks for, as sets of bits

ASSUME CStringsAssumption == MemSize \in Nat /\ \A w \in FfsWords : w \subseteq 0..31

VARIABLE done            \* the last call: routine, arguments, result
csVars == <<done>>

\* ---- Sorting ----
exch(a, i, j) == [a EXCEPT ![i] = a[j], ![j] = a[i]]

\* The loop of quicksort's three-way partition of a[l..r] around a[r]: up to p
\* and from q on are the elements equal to it that were met so far.
Partition[a \in Seq(Int), l, r, i0, j0, p0, q0 \in Int] ==
  LET v == a[r]
      i == Min({k \in (i0 + 1)..r : k = r \/ a[k] >= v})
      j == Max({k \in l..(j0 - 1) : k = l \/ a[k] <= v})
      swapped == exch(a, i, j)
      p == IF swapped[i] = v THEN p0 + 1 ELSE p0
      left == IF p = p0 THEN swapped ELSE exch(swapped, p, i)
      q == IF left[j] = v THEN q0 - 1 ELSE q0
      both == IF q = q0 THEN left ELSE exch(left, j, q)
  IN  IF i >= j THEN [a |-> a, i |-> i, p |-> p0, q |-> q0]
      ELSE Partition[both, l, r, i, j, p, q]

quicksort[a \in Seq(Int), l, r \in Int] ==
  IF r <= l THEN a
  ELSE LET m == Partition[a, l, r, l - 1, r, l - 1, r]
           Lefts == [k \in 1..Max({0, m.p - l}) |-> l + k - 1]         \* l <= k < p
           Rights == [k \in 1..Max({0, r - 1 - m.q}) |-> r - k]        \* r > k > q
           b == FoldLeft(LAMBDA x, k : exch(x, k, m.i - 1 - (k - l)), exch(m.a, m.i, r), Lefts)
           c == FoldLeft(LAMBDA x, k : exch(x, m.i + 1 + (r - 1 - k), k), b, Rights)
           j == m.i - 1 - Len(Lefts)
           i == m.i + 1 + Len(Rights)
       IN  quicksort[quicksort[c, l, j], i, r]
qsort(a) == IF Len(a) > 1 THEN quicksort[a, 1, Len(a)] ELSE a

\* ---- Memory and strings ----
CopyByte(mem, from, to) == [mem EXCEPT ![to] = mem[from]]
memmove_forward(mem, dst, src, count) ==    \* Mutant: always from the first byte on.
  FoldLeft(LAMBDA m, k : CopyByte(m, src + k, dst + k), mem, [k \in 1..count |-> k - 1])
memmove(mem, dst, src, count) ==
  LET forward == [k \in 1..count |-> k - 1]
      order == IF src > dst THEN forward ELSE Reverse(forward)
  IN  IF src = dst THEN mem
      ELSE FoldLeft(LAMBDA m, k : CopyByte(m, src + k, dst + k), mem, order)

Truncated(d) == LET u == d % 256 IN IF u >= 128 THEN u - 256 ELSE u    \* signed char
\* The difference at the first place, of the first count, where the texts
\* differ or end.
Difference(s, t, count) ==
  LET AtNul(x, k) == IF k <= Len(x) THEN x[k] ELSE 0
      places == {k \in 1..count : AtNul(s, k) # AtNul(t, k) \/ AtNul(s, k) = 0}
  IN  IF places = {} THEN 0
      ELSE Truncated(AtNul(s, Min(places)) - AtNul(t, Min(places)))
strcmp(s, t) == Difference(s, t, Len(s) + 1)
strncmp(s, t, count) == Difference(s, t, count)
memcmp(s, t, count) ==
  LET places == {k \in 1..count : s[k] # t[k]} IN
  IF places = {} THEN 0 ELSE Truncated(s[Min(places)] - t[Min(places)])

\* strstr: the place of t in s, 0 for NULL.
strstr(s, t) ==
  IF t = << >> THEN 1
  ELSE LET fits == {k \in 1..(Len(s) - Len(t) + 1) : memcmp(SubSeq(s, k, k + Len(t) - 1), t, Len(t)) = 0}
       IN IF fits = {} THEN 0 ELSE Min(fits)

\* s with at most n characters of t behind it, n = 0 leaving even the
\* terminator alone.
strncat(s, t, n) == s \o SubSeq(t, 1, Min({n, Len(t)}))

\* strtok_r: overread delimiters, take the token, step over the character that
\* ended it.  rest is what the next call starts with.
Span(s, P(_)) == Min({k \in 0..Len(s) : k = Len(s) \/ ~P(s[k + 1])})
strtok_r(s, delim) ==
  LET from == Span(s, LAMBDA c : c \in delim)
      tail == SubSeq(s, from + 1, Len(s))
      n == Span(tail, LAMBDA c : c \notin delim)
  IN  IF tail = << >> THEN [token |-> << >>, rest |-> << >>]
      ELSE [token |-> SubSeq(tail, 1, n), rest |-> SubSeq(tail, n + 2, Len(tail))]

\* ---- ffs ----
\* Halves without a set bit are skipped; a word is the set of its bits.
ffs(w) ==
  LET Skip(acc, n) == IF acc.w \cap 0..(n - 1) = {}
                      THEN [plus |-> acc.plus + n, w |-> {b - n : b \in acc.w}] ELSE acc
      m == FoldLeft(Skip, [plus |-> 0, w |-> w], <<16, 8, 4>>)
      low == m.w \cap 0..3
  IN  IF low = {} THEN 0 ELSE m.plus + Min(low) + 1

\* ---- Calls ----
CsInit == done = [routine |-> "none"]

Sort == \E a \in Arrays : done' = [routine |-> "qsort", a |-> a, sorted |-> qsort(a)]
Move ==
  \E dst, src \in 1..MemSize, count \in 0..MemSize :
    /\ dst + count <= MemSize + 1 /\ src + count <= MemSize + 1
    /\ LET mem == [k \in 1..MemSize |-> k] IN
       done' = [routine |-> "memmove", mem |-> mem, dst |-> dst, src |-> src, count |-> count,
                moved |-> memmove(mem, dst, src, count)]
CompareStrings ==
  \E s, t \in Strings, n \in 0..3 :
    done' = [routine |-> "compare", s |-> s, t |-> t, n |-> n,
             strcmp |-> strcmp(s, t), strncmp |-> strncmp(s, t, n),
             strstr |-> strstr(s, t), strncat |-> strncat(s, t, n)]
\* A caller that splits a string into its tokens.
Split ==
  \E s \in Strings, t \in Strings :
    LET delim == ToSet(t)
        All == FoldLeft(LAMBDA acc, k :
                 LET r == strtok_r(acc.rest, delim) IN
                 [rest |-> r.rest,
                  tokens |-> IF r.token = << >> THEN acc.tokens ELSE Append(acc.tokens, r.token)],
                 [rest |-> s, tokens |-> << >>], s)
    IN  done' = [routine |-> "strtok", s |-> s, delim |-> delim, tokens |-> All.tokens]
FirstBit == \E w \in FfsWords : done' = [routine |-> "ffs", w |-> w, bit |-> ffs(w)]

CsNext == done.routine = "none" /\ (Sort \/ Move \/ CompareStrings \/ Split \/ FirstBit)

\* ---- Properties ----
SortAgrees(a, sorted) ==
  /\ \A x \in ToSet(a) \cup ToSet(sorted) :
       Cardinality({k \in DOMAIN a : a[k] = x}) = Cardinality({k \in DOMAIN sorted : sorted[k] = x})
  /\ \A k \in 1..(Len(a) - 1) : sorted[k] <= sorted[k + 1]

MoveAgrees(d) ==
  d.moved = [k \in 1..MemSize |->
               IF k \in d.dst..(d.dst + d.count - 1) THEN d.mem[d.src + k - d.dst] ELSE d.mem[k]]

\* Dictionary order: s comes before t.
Before(s, t) ==
  \/ IsStrictPrefix(s, t)
  \/ \E k \in DOMAIN s \cap DOMAIN t :
       SubSeq(s, 1, k - 1) = SubSeq(t, 1, k - 1) /\ s[k] < t[k]
CompareAgrees(d) ==
  LET Cut(x) == SubSeq(x, 1, Min({d.n, Len(x)})) IN
  /\ d.strcmp = -strcmp(d.t, d.s)
  /\ (d.strcmp < 0) = Before(d.s, d.t) /\ (d.strcmp = 0) = (d.s = d.t)
  /\ (d.strncmp < 0) = Before(Cut(d.s), Cut(d.t)) /\ (d.strncmp = 0) = (Cut(d.s) = Cut(d.t))
  /\ IF d.strstr = 0 THEN \A k \in 0..Len(d.s) : ~IsPrefix(d.t, SubSeq(d.s, k + 1, Len(d.s)))
     ELSE /\ IsPrefix(d.t, SubSeq(d.s, d.strstr, Len(d.s)))
          /\ \A k \in 1..(d.strstr - 1) : ~IsPrefix(d.t, SubSeq(d.s, k, Len(d.s)))
  /\ IsPrefix(d.s, d.strncat) /\ SubSeq(d.strncat, Len(d.s) + 1, Len(d.strncat)) = Cut(d.t)

\* The tokens are the longest runs without a delimiter, in order.
SplitAgrees(d) ==
  LET Run(k, n) == /\ \A i \in k..n : d.s[i] \notin d.delim
                   /\ k = 1 \/ d.s[k - 1] \in d.delim
                   /\ n = Len(d.s) \/ d.s[n + 1] \in d.delim
      runs == {x \in (DOMAIN d.s) \X (DOMAIN d.s) : x[1] <= x[2] /\ Run(x[1], x[2])}
      ordered == SetToSortSeq(runs, LAMBDA x, y : x[1] < y[1])
  IN  d.tokens = [k \in DOMAIN ordered |-> SubSeq(d.s, ordered[k][1], ordered[k][2])]

\* Whatever the arguments: qsort returns the elements in order, with many equal
\* keys as well; memmove copies overlapping ranges as if through a buffer;
\* strcmp and strncmp order strings (whose characters are less than 128 apart)
\* as a dictionary does; strstr finds the first occurrence; strncat appends no
\* more than n characters; strtok_r splits a string into its fields; ffs finds
\* the lowest bit.
StringsAgree ==
  CASE done.routine = "qsort" -> SortAgrees(done.a, done.sorted)
    [] done.routine = "memmove" -> MoveAgrees(done)
    [] done.routine = "compare" -> CompareAgrees(done)
    [] done.routine = "strtok" -> SplitAgrees(done)
    [] done.routine = "ffs" -> done.bit = IF done.w = {} THEN 0 ELSE Min(done.w) + 1
    [] OTHER -> TRUE
=============================================================================

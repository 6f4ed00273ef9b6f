------------------------------ MODULE Address ------------------------------
(***************************************************************************)
(* Addresses: the encoder the index files history under                    *)
(* (src/indexer/address.rs) and the gate the handlers put in front of a    *)
(* lookup (validate_address of src/api/dto.rs).  A character is a string   *)
(* of length one; the 40-bit checksum register is eight 5-bit words, most  *)
(* significant first.                                                      *)
(***************************************************************************)
EXTENDS Payload, Bitwise

CHARSET ==
  <<"q", "p", "z", "r", "y", "9", "x", "8", "g", "f", "2", "t", "v", "d", "w", "0",
    "s", "3", "j", "n", "5", "4", "k", "h", "c", "e", "6", "m", "u", "a", "7", "l">>

\* The prefix of a network, and the low five bits of its letters.
prefix_for_network(kind) ==
  CASE kind = "mainnet" -> "keryx"
    [] kind = "testnet" -> "keryxtest"
    [] kind = "devnet"  -> "keryxdev"
    [] OTHER            -> "keryxsim"

PrefixWords(prefix) ==
  <<11, 5, 18, 25, 24>> \o
  CASE prefix = "keryx"     -> <<>>
    [] prefix = "keryxtest" -> <<20, 5, 19, 20>>
    [] prefix = "keryxsim"  -> <<19, 9, 13>>
    [] prefix = "keryxdev"  -> <<4, 5, 22>>

----------------------------------------------------------------------------
(* encode_address *)

\* The five bits of a byte string from bit k on; past its end bits are zero.
FiveBits(bytes, k) ==
  LET byte(i) == IF i < Len(bytes) THEN At(bytes, i) ELSE 0
  IN ((256 * byte(k \div 8) + byte((k \div 8) + 1)) \div 2 ^ (11 - (k % 8))) % 32

\* The loop gives out a word as soon as five bits are there, and what is left
\* over as the upper bits of a last word.
to_words(bytes) ==
  [i \in 1 .. (8 * Len(bytes) + 4) \div 5 |-> FiveBits(bytes, 5 * (i - 1))]

Xor5 == [a \in 0 .. 31, b \in 0 .. 31 |-> a ^^ b]

XorWords(c, d) == [i \in 1 .. 8 |-> Xor5[c[i], d[i]]]

\* One digit of the second generator is wrong.
MutGEN ==
  << <<19, 3, 25, 11, 25, 3, 19, 1>>, <<15, 6, 27, 22, 27, 6, 14, 2>>,
     <<30, 12, 31, 5, 31, 12, 30, 4>>, <<21, 24, 23, 10, 23, 24, 21, 8>>,
     <<3, 25, 7, 20, 7, 25, 3, 16>> >>

GEN ==
  << <<19, 3, 25, 11, 25, 3, 19, 1>>, <<15, 6, 27, 22, 27, 6, 15, 2>>,
     <<30, 12, 31, 5, 31, 12, 30, 4>>, <<21, 24, 23, 10, 23, 24, 21, 8>>,
     <<3, 25, 7, 20, 7, 25, 3, 16>> >>

One == <<0, 0, 0, 0, 0, 0, 0, 1>>

\* The generators the bits of the word shifted out select.
Feedback == [c0 \in 0 .. 31 |->
  FoldLeft(LAMBDA x, i : IF (c0 \div 2 ^ (i - 1)) % 2 = 1 THEN XorWords(x, GEN[i]) ELSE x,
           [i \in 1 .. 8 |-> 0], <<1, 2, 3, 4, 5>>)]

\* The loop over the values, as a loop over one half and then the other.
Absorb[c \in Seq(0 .. 31), values \in Seq(0 .. 31)] ==
  IF Len(values) = 0 THEN c
  ELSE IF Len(values) = 1
       THEN XorWords(Append(Tail(c), values[1]), Feedback[Head(c)])
       ELSE LET half == Len(values) \div 2
            IN Absorb[Absorb[c, Slice(values, 0, half)], Slice(values, half, Len(values))]

polymod(values) == XorWords(Absorb[One, values], One)

\* The first n bytes of the bits of these words.
Bytes(words, n) ==
  LET bit(k) == (At(words, k \div 5) \div 2 ^ (4 - (k % 5))) % 2
  IN [i \in 1 .. n |-> FoldLeft(LAMBDA b, j : 2 * b + bit(8 * (i - 1) + j), 0,
                                <<0, 1, 2, 3, 4, 5, 6, 7>>)]

\* The register leaves as five bytes, which to_words turns back into its words.
checksum_words(data, prefix) ==
  LET m == polymod(PrefixWords(prefix) \o <<0>> \o data \o [i \in 1 .. 8 |-> 0])
  IN SubSeq(to_words(Bytes(m, 5)), 1, 8)

encode_address(version, payload, prefix) ==
  LET data == to_words(<<version>> \o payload)
      text == data \o checksum_words(data, prefix)
  IN [prefix |-> prefix, payload |-> [i \in DOMAIN text |-> At(CHARSET, text[i])]]

\* The standard scripts: Schnorr P2PK, ECDSA P2PK and P2SH.
Standard(version) ==
  CASE version = 0 -> [head |-> <<32>>, len |-> 32, tail |-> <<172>>]
    [] version = 1 -> [head |-> <<33>>, len |-> 33, tail |-> <<171>>]
    [] version = 8 -> [head |-> <<170, 32>>, len |-> 32, tail |-> <<135>>]

Matches(script, form) ==
  /\ Len(script) = Len(form.head) + form.len + Len(form.tail)
  /\ IsPrefix(form.head, script) /\ IsSuffix(form.tail, script)

script_to_address(script_hex, prefix) ==
  LET script == from_hex(script_hex)
      versions == {v \in {0, 1, 8} : script # Nil /\ Matches(script, Standard(v))}
  IN IF versions = {} THEN Nil
     ELSE LET v == CHOOSE x \in versions : TRUE
              f == Standard(v)
          IN encode_address(v, Slice(script, Len(f.head), Len(f.head) + f.len), prefix)

----------------------------------------------------------------------------
(* validate_address *)

ADDRESS_PREFIXES == {"keryx", "keryxtest", "keryxsim", "keryxdev"}

BECH32_CHARSET ==
  {"q", "p", "z", "r", "y", "9", "x", "8", "g", "f", "2", "t", "v", "d", "w", "0",
   "s", "3", "j", "n", "5", "4", "k", "h", "c", "e", "6", "m", "u", "a", "7", "l"}

validate_address(address) ==
  /\ address.prefix \in ADDRESS_PREFIXES
  /\ address.payload # <<>> /\ Range(address.payload) \subseteq BECH32_CHARSET

----------------------------------------------------------------------------
(* Reference: the code and the field it is defined over *)

\* The product in GF(32) with x^5 + x^3 + 1, by shifts.
Double(a) == IF a < 16 THEN 2 * a ELSE Xor5[2 * a - 32, 9]

Times == [a \in 0 .. 31, b \in 0 .. 31 |->
  FoldLeft(LAMBDA n, i : Xor5[Double(n), IF (b \div 2 ^ i) % 2 = 1 THEN a ELSE 0],
           0, <<4, 3, 2, 1, 0>>)]

\* The generator polynomial is x^8 and these lower coefficients.
Generator == <<19, 3, 25, 11, 25, 3, 19, 1>>

\* The remainder of r * x^n + the polynomial with these n coefficients.
Horner[r \in Seq(0 .. 31), coeffs \in Seq(0 .. 31)] ==
  IF Len(coeffs) = 1
  THEN XorWords(Append(Tail(r), coeffs[1]), [i \in 1 .. 8 |-> Times[Head(r), Generator[i]]])
  ELSE LET half == Len(coeffs) \div 2
       IN Horner[Horner[r, Slice(coeffs, 0, half)], Slice(coeffs, half, Len(coeffs))]

Remainder(coeffs) == Horner[[i \in 1 .. 8 |-> 0], coeffs]

WordOf(c) == (CHOOSE i \in DOMAIN CHARSET : CHARSET[i] = c) - 1

\* An address as its reader takes it apart: the code word, and the bits.
Words(address) == [i \in DOMAIN address.payload |-> WordOf(address.payload[i])]

CodeWord(address) == <<1>> \o PrefixWords(address.prefix) \o <<0>> \o Words(address)

=============================================================================

------------------------------ MODULE Payload ------------------------------
(***************************************************************************)
(* The decoders of the AI payloads (src/indexer/inference.rs), on bytes.   *)
(* Offsets and lengths are the code's; the two limits that would need long *)
(* payloads are constants.  Hex text is the sequence of its digits.        *)
(***************************************************************************)
EXTENDS Integers, Sequences, SequencesExt

CONSTANTS
  MAX_PRIVATE_RECIPIENTS,
  MAX_RESPONSE_PRIVATE_BODY_LEN,
  Nil

\* The bytes from .. to - 1, counted from zero.
Slice(s, from, to) == SubSeq(s, from + 1, to)

At(s, i) == s[i + 1]

u32_from_le_bytes(s) ==
  At(s, 0) + 256 * (At(s, 1) + 256 * (At(s, 2) + 256 * At(s, 3)))

LexLess(a, b) ==
  \/ IsStrictPrefix(a, b)
  \/ \E i \in DOMAIN a \cap DOMAIN b :
       a[i] < b[i] /\ SubSeq(a, 1, i - 1) = SubSeq(b, 1, i - 1)

to_hex(bytes) ==
  [i \in 1 .. 2 * Len(bytes) |->
     IF i % 2 = 1 THEN bytes[(i + 1) \div 2] \div 16 ELSE bytes[i \div 2] % 16]

\* from_str_radix takes a sign, so a digit after a plus is a byte too.
PLUS == 16

from_hex(s) ==
  IF Len(s) % 2 = 1
     \/ \E i \in 1 .. Len(s) \div 2 : s[2 * i - 1] > PLUS \/ s[2 * i] > 15
  THEN Nil
  ELSE [i \in 1 .. Len(s) \div 2 |-> 16 * (s[2 * i - 1] % PLUS) + s[2 * i]]

----------------------------------------------------------------------------
(* Sealed prompts *)

PRIVATE_MAGIC == <<0, 75, 88, 80>>
PRIVATE_VERSION == 1
PRIVATE_REQUEST_HEADER_LEN == 4 + 1 + 33 + 12 + 1
PRIVATE_RECIPIENT_ENTRY_LEN == 32 + 48
PRIVATE_TAG_LEN == 16

is_private(bytes) == IsPrefix(PRIVATE_MAGIC, bytes)

EntriesEnd(n) == PRIVATE_REQUEST_HEADER_LEN + n * PRIVATE_RECIPIENT_ENTRY_LEN

RecipientKeys(prompt, n) ==
  [i \in 1 .. n |-> Slice(prompt, EntriesEnd(i - 1), EntriesEnd(i - 1) + 32)]

Ascending(keys) == \A i \in 1 .. Len(keys) - 1 : LexLess(keys[i], keys[i + 1])

\* Forgets the room for the ciphertext's tag.
MutPrivateRecipientCount(prompt) ==
  IF ~is_private(prompt) \/ Len(prompt) < PRIVATE_REQUEST_HEADER_LEN THEN Nil
  ELSE LET n == At(prompt, PRIVATE_REQUEST_HEADER_LEN - 1)
       IN IF Len(prompt) >= EntriesEnd(n) THEN n ELSE Nil

private_recipient_count(prompt) ==
  IF \/ ~is_private(prompt)
     \/ Len(prompt) < PRIVATE_REQUEST_HEADER_LEN
     \/ At(prompt, 4) # PRIVATE_VERSION
  THEN Nil
  ELSE LET n == At(prompt, PRIVATE_REQUEST_HEADER_LEN - 1)
       IN IF /\ n \in 1 .. MAX_PRIVATE_RECIPIENTS
             /\ Len(prompt) >= EntriesEnd(n) + PRIVATE_TAG_LEN
             /\ Ascending(RecipientKeys(prompt, n))
          THEN n ELSE Nil

----------------------------------------------------------------------------
(* AiRequest *)

MIN_REQUEST_LEN == 52
REPLACEMENT == -1

\* Every byte that is not ASCII is taken for a malformed one.
from_utf8_lossy(bytes) ==
  [i \in DOMAIN bytes |-> IF bytes[i] < 128 THEN bytes[i] ELSE REPLACEMENT]

decode_request(payload) ==
  IF Len(payload) < MIN_REQUEST_LEN THEN Nil
  ELSE LET prompt  == Slice(payload, 52, Len(payload))
           private == is_private(prompt)
       IN [ model_id         |-> to_hex(Slice(payload, 0, 32)),
            max_tokens       |-> Slice(payload, 32, 36),
            inference_reward |-> Slice(payload, 36, 44),
            priority_fee     |-> Slice(payload, 44, 52),
            prompt           |-> IF private THEN <<>> ELSE from_utf8_lossy(prompt),
            private          |-> private,
            recipient_count  |-> IF private THEN private_recipient_count(prompt)
                                 ELSE Nil ]

----------------------------------------------------------------------------
(* AiResponse *)

RESPONSE_LEN == 78
RESPONSE_V2_LEN == RESPONSE_LEN + 32 + 64
RESPONSE_EXT_PRIVATE_BODY == 128
RESPONSE_EXT_TRACE == 129
RESPONSE_TRACE_LEN == 32 + 4 + 4 + 1
RESPONSE_TRACE_TOKENS_LEN == RESPONSE_TRACE_LEN + 32
RESPONSE_EXT_HEADER_LEN == 1 + 4

IsExtension(ext, kind) == Len(ext) > RESPONSE_EXT_HEADER_LEN /\ At(ext, 0) = kind

DeclaredLen(ext) == u32_from_le_bytes(Slice(ext, 1, 5))

is_trace_extension(ext) ==
  LET n == Len(ext) - RESPONSE_EXT_HEADER_LEN
  IN /\ IsExtension(ext, RESPONSE_EXT_TRACE)
     /\ DeclaredLen(ext) = n
     /\ n \in {RESPONSE_TRACE_LEN, RESPONSE_TRACE_TOKENS_LEN}

\* Takes a trace that is cut short.
MutPrivateBody(ext) ==
  IF ~IsExtension(ext, RESPONSE_EXT_PRIVATE_BODY) THEN Nil
  ELSE LET len == DeclaredLen(ext)
       IN IF /\ RESPONSE_EXT_HEADER_LEN + len <= Len(ext)
             /\ len <= MAX_RESPONSE_PRIVATE_BODY_LEN
          THEN Slice(ext, RESPONSE_EXT_HEADER_LEN, RESPONSE_EXT_HEADER_LEN + len)
          ELSE Nil

\* The inline answer, if the extensions account for every byte.
PrivateBody(ext) ==
  IF ~IsExtension(ext, RESPONSE_EXT_PRIVATE_BODY) THEN Nil
  ELSE LET len  == DeclaredLen(ext)
           end  == RESPONSE_EXT_HEADER_LEN + len
           rest == Slice(ext, end, Len(ext))
       IN IF /\ end <= Len(ext)
             /\ len <= MAX_RESPONSE_PRIVATE_BODY_LEN
             /\ rest = <<>> \/ is_trace_extension(rest)
          THEN Slice(ext, RESPONSE_EXT_HEADER_LEN, end) ELSE Nil

\* 256 times a number in base 58, least significant digit first, plus a
\* carry; what is carried out comes last.
Times256[carry \in Nat, digits \in Seq(0 .. 57)] ==
  IF digits = <<>> THEN <<carry>>
  ELSE IF Len(digits) = 1
       THEN LET n == carry + 256 * digits[1] IN <<n % 58, n \div 58>>
       ELSE LET half == Len(digits) \div 2
                low  == Times256[carry, Slice(digits, 0, half)]
            IN Front(low) \o Times256[Last(low), Slice(digits, half, Len(digits))]

\* The digits of a number followed by those bytes.
Base58[digits \in Seq(0 .. 57), bytes \in Seq(0 .. 255)] ==
  IF Len(bytes) = 1
  THEN LET sum == Times256[bytes[1], digits]
           out == Last(sum)
       IN Front(sum) \o (CASE out = 0 -> <<>>
                           [] out \in 1 .. 57 -> <<out>>
                           [] OTHER -> <<out % 58, out \div 58>>)
  ELSE LET half == Len(bytes) \div 2
       IN Base58[Base58[digits, Slice(bytes, 0, half)], Slice(bytes, half, Len(bytes))]

\* base58btc: the digits, most significant first, and a zero digit for each
\* leading zero byte.
bs58_encode(bytes) ==
  LET zeros == CHOOSE n \in 0 .. Len(bytes) :
                 /\ \A i \in 1 .. n : bytes[i] = 0
                 /\ n < Len(bytes) => bytes[n + 1] # 0
  IN [i \in 1 .. zeros |-> 0] \o Reverse(Base58[<<>>, bytes])

decode_response(payload) ==
  IF Len(payload) < RESPONSE_LEN THEN Nil
  ELSE [ request_hash         |-> to_hex(Slice(payload, 0, 32)),
         challenge_window_end |-> Slice(payload, 32, 40),
         cid                  |-> bs58_encode(Slice(payload, 40, 74)),
         response_length      |-> Slice(payload, 74, 78),
         responder_pubkey     |-> IF Len(payload) >= RESPONSE_V2_LEN
                                  THEN to_hex(Slice(payload, 78, 110)) ELSE Nil,
         private_body         |-> PrivateBody(Slice(payload, RESPONSE_V2_LEN,
                                                    Len(payload))) ]

\* Digits 23 and 44 are Q and m.
is_cid_v0(s) ==
  /\ Len(s) = 46
  /\ IsPrefix(<<23, 44>>, s)
  /\ Range(s) \subseteq 0 .. 57

----------------------------------------------------------------------------
(* AiChallenge *)

MIN_CHALLENGE_LEN == 74

decode_challenge(payload) ==
  IF Len(payload) < MIN_CHALLENGE_LEN THEN Nil
  ELSE [ response_hash |-> to_hex(Slice(payload, 0, 32)),
         request_hash  |-> IF Len(payload) >= MIN_CHALLENGE_LEN + 32
                           THEN to_hex(Slice(payload, 74, 106)) ELSE Nil ]

----------------------------------------------------------------------------
(* Scripts *)

\* The key of a P2PK script: OP_DATA_32, the key, OP_CHECKSIG.
p2pk_pubkey(script_hex) ==
  LET b == from_hex(script_hex)
  IN IF b # Nil /\ Len(b) = 34 /\ b[1] = 32 /\ b[34] = 172
     THEN to_hex(Slice(b, 1, 33)) ELSE Nil

\* The miner's key in a CSV escrow: a push of 1 to 8 bytes, OP_CSV,
\* OP_DATA_32, the key, OP_CHECKSIG.
csv_escrow_pubkey(script_hex) ==
  LET b == from_hex(script_hex)
  IN IF /\ b # Nil /\ Len(b) >= 37
        /\ b[1] \in 1 .. 8 /\ Len(b) = b[1] + 36
        /\ At(b, b[1] + 1) = 177 /\ At(b, b[1] + 2) = 32 /\ Last(b) = 172
     THEN to_hex(Slice(b, b[1] + 3, b[1] + 35)) ELSE Nil

INFERENCE_VAULT_SCRIPT_HEX == <<6, 10, 0, 7, 6, 1, 6, 9, 7, 6, 6, 1, 7, 5, 6, 12, 7, 4>>

is_inference_vault(script_hex) == script_hex = INFERENCE_VAULT_SCRIPT_HEX

=============================================================================

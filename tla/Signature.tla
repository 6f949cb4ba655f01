----------------------------- MODULE Signature -----------------------------
(***************************************************************************)
(* The arithmetic at the end of a request: the signature that the signing  *)
(* process leaves is brought to its Ethereum form (PostProcess) and put    *)
(* into a transaction (SignEthTransaction), the private key is recovered   *)
(* from two shares (ExportHandler), and the numbers of a transaction are   *)
(* read from what an application writes (ParseBigInt).                     *)
(* Sources: utils/tss/tssManager.go, utils/tss/serviceSigner.go,           *)
(* utils/tss/recovery.go, server/tss_recover.go, utils/tx/tx.go and        *)
(* client/web/wasm/main.go.                                                *)
(*                                                                         *)
(* The curve is a constant: a group of prime order N whose element i is    *)
(* the i-th multiple of the base point, with its x-coordinate and the      *)
(* parity of its y-coordinate.  The key is named by its number, and so is  *)
(* its public key and its address.  A "byte" is a digit to a small base,   *)
(* and a text a sequence of characters that are numbers too.               *)
(***************************************************************************)
EXTENDS Integers, Sequences

CONSTANTS
    N,               \* the order of the group
    X, Odd,          \* X[i], Odd[i]: the point i, as secp256k1 has it
    Base, Width,     \* a byte is in 0..Base - 1, a field element has Width bytes
    BKs,             \* BKs[p]: the x of peer p in the server's parameters
    ChainIds,        \* chain ids of the transactions, as ParseBigInt reads them
    Float, Dotted,   \* precision of float64 and of big.Float, in bits: 53 and 64
    Word,            \* bits of an integer: 64
    MaxValue,        \* bound on the numbers of a transaction
    MaxDigits        \* bound on the digits they are written with

Scalars == 0..N - 1
Points  == 1..N - 1
Peers   == DOMAIN BKs
Server  == "server"

ASSUME SignatureAssumption ==
    /\ N \in Nat /\ N > 2
    /\ \A a, b \in Points : (a * b) % N # 0
    /\ X \in [Points -> Nat] /\ Odd \in [Points -> {0, 1}]
    /\ \A i, j \in Points : X[i] = X[j] <=> j \in {i, N - i}
    /\ \A i \in Points : Odd[i] # Odd[N - i]
    /\ N <= Base ^ Width
    /\ Server \in Peers /\ BKs \in [Peers -> Points]
    /\ \A p, q \in Peers : p # q => BKs[p] # BKs[q]
    /\ Base \in Nat /\ Base > 1 /\ Width \in Nat
    /\ ChainIds \subseteq Nat /\ MaxValue \in Nat /\ MaxDigits \in Nat \ {0}
    /\ MaxValue < 10 ^ MaxDigits /\ MaxValue < 16 ^ MaxDigits
    /\ MaxValue < 2 ^ (4 * MaxDigits)
    /\ {Float, Dotted, Word} \subseteq Nat \ {0} /\ Float <= Word

\* Powers, as far as they are used here: the provers know nothing about them.
ASSUME PowersAssumption ==
    /\ Base ^ 0 = 1 /\ 2 ^ 0 = 1 /\ 10 ^ 0 = 1 /\ 16 ^ 0 = 1
    /\ \A l \in 0..Width : /\ Base ^ l \in Nat \ {0}
                           /\ Base ^ (l + 1) = Base * Base ^ l
    /\ \A b \in {10, 16}, l \in 0..MaxDigits : /\ b ^ l \in Nat \ {0}
                                               /\ b ^ (l + 1) = b * b ^ l
    /\ \A n \in 0..Word + Dotted + 4 * MaxDigits : /\ 2 ^ n \in Nat \ {0}
                                                   /\ 2 ^ (n + 1) = 2 * 2 ^ n

VARIABLES
    pc,    \* what is under way
    d,     \* the private key
    in,    \* the input of the operation
    out    \* its result

vars == <<pc, d, in, out>>

None  == "none"
NoKey == 0       \* an error instead of a key
Empty == <<>>    \* an error instead of bytes

-----------------------------------------------------------------------------
(* Numbers and bytes.                                                      *)

Mod(a) == a % N

ModInverse == [a \in Points |-> CHOOSE b \in Points : Mod(a * b) = 1]

\* The number of digits to base b, at most max, that n needs.
Length(n, max, b) == CHOOSE l \in 0..max + 1 :
                        n < b ^ l /\ (l = 0 \/ n >= b ^ (l - 1))

\* n in l digits, the first one first.
Digits(n, l, b) == [i \in 1..l |-> (n \div b ^ (l - i)) % b]

\* The number that digits s stand for.
Number(s, b) ==
    LET value[i \in 0..Len(s)] ==
            IF i = 0 THEN 0 ELSE b * value[i - 1] + s[i]
    IN  value[Len(s)]

\* The number of bytes of n; FillBytes: n in l bytes; SetBytes: their number.
Len8(n)         == Length(n, Width, Base)
FillBytes(n, l) == Digits(n, l, Base)
SetBytes(s)     == Number(s, Base)

\* The bytes of n, filled up to a full width.
Padded(n) == [i \in 1..Width - Len8(n) |-> 0] \o FillBytes(n, Len8(n))

-----------------------------------------------------------------------------
(* ECDSA over the curve, as the libraries do it.                           *)

\* RecoverCompact: the key that signed z, from a header, r and s.  The multiple 0
\* of the base point is no key.
RecoverCompact(header, r, s, z) ==
    LET R == {i \in Points : X[i] = r /\ Odd[i] = header - 27}
    IN  IF r \notin Points \/ s \notin Points \/ R = {} THEN NoKey
        ELSE LET i == CHOOSE i \in R : TRUE
             IN  Mod(ModInverse[r] * (s * i - z))

Verify(q, z, r, s) ==
    LET i == Mod(ModInverse[s] * (z + r * q))
    IN  i # 0 /\ Mod(X[i]) = r

\* What the signing process leaves for nonce k.
SignResult(k, z) ==
    [r |-> Mod(X[k]), s |-> Mod(ModInverse[k] * (z + Mod(X[k]) * d))]

-----------------------------------------------------------------------------
(* PostProcess of the signer.                                              *)

\* Mutant of IsLowS: strictly below half the order.
IsLowSStrict(s) == s < N \div 2

IsLowS(s) == s <= N \div 2

ToLowS(s) == IF IsLowS(s) THEN s ELSE N - s

\* The recovery ids, of 0 and 1, that lead to key q.
RecoveryIDs(r, s, z, q) ==
    {id \in {0, 1} : RecoverCompact(id + 27, r, s, z) = q}

\* Mutant of GenerateSignature: r and s are not filled up to a full width.
GenerateSignatureUnpadded(r, s, q, z) ==
    IF ~Verify(q, z, r, s) THEN Empty
    ELSE FillBytes(r, Len8(r)) \o FillBytes(s, Len8(s))
            \o <<IF RecoveryIDs(r, s, z, q) = {1} THEN 1 ELSE 0>>

\* An error for 0 is kept although 1 may be right; when none is right v stays 0.
GenerateSignature(r, s, q, z) ==
    LET first == RecoverCompact(27, r, s, z)
        v == IF RecoveryIDs(r, s, z, q) = {1} THEN 1 ELSE 0
    IN  IF \/ Len8(r) = 0 \/ Len8(r) > Width \/ Len8(s) = 0 \/ Len8(s) > Width
           \/ first = NoKey
           \/ first # q /\ RecoverCompact(28, r, s, z) = NoKey
           \/ ~Verify(q, z, r, s)
        THEN Empty
        ELSE Padded(r) \o Padded(s) \o <<v>>

PostProcess(raw, z) == GenerateSignature(raw.r, ToLowS(raw.s), d, z)

\* The parts of a signature of PostProcess.
SigR(sig) == SetBytes(SubSeq(sig, 1, Width))
SigS(sig) == SetBytes(SubSeq(sig, Width + 1, 2 * Width))
SigV(sig) == sig[2 * Width + 1]

-----------------------------------------------------------------------------
(* Transactions.                                                           *)

\* Mutant of WithSignature: the chain id is left out of v.
WithSignatureUnprotected(type, chainId, sig) ==
    IF type = "dynamic" THEN Empty ELSE <<SigV(sig) + 27, SigR(sig), SigS(sig)>>

\* WithSignature of types.EIP155Signer: v, r and s, where v holds the chain id
\* unless that is 0.  It knows no DynamicFeeTx.
WithSignature(type, chainId, sig) ==
    IF type = "dynamic" THEN Empty
    ELSE <<SigV(sig) + (IF chainId = 0 THEN 27 ELSE 35 + 2 * chainId),
           SigR(sig), SigS(sig)>>

\* types.Sender: the hash of a transaction whose v holds no chain id is z0, that
\* of the transaction without a chain id; otherwise the chain id must fit and the
\* hash is z.
Sender(tx, chainId, z, z0) ==
    LET id == tx[1] - 35 - 2 * chainId
    IN  CASE tx[1] \in {27, 28} -> RecoverCompact(tx[1], tx[2], tx[3], z0)
          [] tx[1] \notin {27, 28} /\ id \in {0, 1} ->
                RecoverCompact(id + 27, tx[2], tx[3], z)
          [] OTHER -> NoKey

-----------------------------------------------------------------------------
(* The numbers of a transaction.  The characters 0 to 15 are hex digits.   *)

Letter_e == 14
Dot      == 16
Letter_x == 17
Letter_X == 18

\* The number m / s to the nearest of the given precision, to the even one of two,
\* and without its fraction.
Truncated(m, s, bits) ==
    LET e == CHOOSE e \in 0..4 * MaxDigits :
                m < s * 2 ^ e /\ (e = 0 \/ m >= s * 2 ^ (e - 1))
        unit == s * 2 ^ e
        q    == (m * 2 ^ bits) \div unit
        rest == 2 * ((m * 2 ^ bits) % unit)
        nearest == IF rest > unit \/ (rest = unit /\ q % 2 = 1) THEN q + 1 ELSE q
    IN  (2 ^ e * nearest) \div 2 ^ bits

\* SetString of big.Int, and 0 when it is not successful.  (No sign is written.)
SetString(s, base) ==
    IF s # <<>> /\ \A i \in 1..Len(s) : s[i] < base THEN Number(s, base) ELSE 0

\* SetString of big.Float for a text with a point, and Int; 0 when it is not
\* successful.  There is one point, and there may be an exponent.
FloatSetString(s) ==
    LET dot == CHOOSE i \in 1..Len(s) : s[i] = Dot
        end == CHOOSE i \in 1..Len(s) + 1 :
                  /\ i = Len(s) + 1 \/ s[i] = Letter_e
                  /\ \A j \in 1..i - 1 : s[j] # Letter_e
        mantissa == SubSeq(s, 1, dot - 1) \o SubSeq(s, dot + 1, end - 1)
        exponent == SubSeq(s, end + 1, Len(s))
    IN  IF /\ dot < end /\ mantissa # <<>>
           /\ exponent # <<>> \/ end = Len(s) + 1
           /\ \A i \in 1..Len(s) : i \notin {dot, end} => s[i] < 10
        THEN Truncated(Number(mantissa, 10) * 10 ^ Number(exponent, 10),
                       10 ^ (end - dot - 1), Dotted)
        ELSE 0

\* Mutant of ParseString: a text of hex digits needs no prefix.
ParseStringAnyHex(s) ==
    IF Len(s) > 2 /\ s[1] = 0 /\ s[2] = Letter_x THEN SetString(SubSeq(s, 3, Len(s)), 16)
    ELSE IF \E i \in 1..Len(s) : s[i] = Dot THEN FloatSetString(s)
    ELSE SetString(s, 16)

\* The case of ParseBigInt for strings.
ParseString(s) ==
    IF Len(s) > 2 /\ s[1] = 0 /\ s[2] = Letter_x THEN SetString(SubSeq(s, 3, Len(s)), 16)
    ELSE IF \E i \in 1..Len(s) : s[i] = Dot THEN FloatSetString(s)
    ELSE SetString(s, 10)

\* int64 of a float64, which has no defined result past its range.
Int64(n) == IF n < 2 ^ (Word - 1) THEN {n} ELSE {-(2 ^ (Word - 1)), 2 ^ (Word - 1) - 1}

\* ParseBigInt: what it may return.  A number of JSON, here m / s, is a float64.
\* (Go integers, which no application can pass, are left out.)
ParseBigInt(value) ==
    CASE value.type = "string"  -> {ParseString(value.text)}
      [] value.type = "float64" -> Int64(Truncated(value.m, value.s, Float))
      [] OTHER                  -> {0}

\* Uint64 of the nonce and of the gas limit: the last bits of the absolute value.
Uint64(n) == (IF n < 0 THEN -n ELSE n) % 2 ^ Word

\* The ways in which an application may write number v, or v and f tenths.
Forms == {"hex", "Hex", "decimal", "dotted", "scientific", "exponent", "dots",
          "number", "null"}

Text(v, base) == Digits(v, IF v = 0 THEN 1 ELSE Length(v, MaxDigits, base), base)

Written(form, v, f) ==
    LET string(s) == [type |-> "string", text |-> s]
    IN  CASE form = "hex"        -> string(<<0, Letter_x>> \o Text(v, 16))
          [] form = "Hex"        -> string(<<0, Letter_X>> \o Text(v, 16))
          [] form = "decimal"    -> string(Text(v, 10))
          [] form = "dotted"     -> string(Text(v, 10) \o <<Dot, f>>)
          [] form = "scientific" ->
                string(Text(v \div 10, 10) \o <<Dot, v % 10, Letter_e, 1>>)
          [] form = "exponent"   -> string(Text(v, 10) \o <<Letter_e, 0>>)
          [] form = "dots"       -> string(Text(v, 10) \o <<Dot, 0, Dot, f>>)
          [] form = "number"     -> [type |-> "float64", m |-> 10 * v + f, s |-> 10]
          [] form = "null"       -> [type |-> "null"]

-----------------------------------------------------------------------------
(* Export.                                                                 *)

\* Shares of key d: the values of a line through d at the x of the peers.
ShareOf(p, slope) == Mod(d + slope * BKs[p])

\* The Birkhoff coefficient of x when the other peer has y; all ranks are 0.
Coefficient(x, y) == Mod(y * ModInverse[Mod(y - x)])

\* Mutant of RecoverPrivateKey: the public key is not compared.
RecoverPrivateKeyUnchecked(pubKey, x1, s1, x2, s2) ==
    IF x1 = x2 THEN NoKey
    ELSE Mod(Coefficient(x1, x2) * s1 + Coefficient(x2, x1) * s2)

RecoverPrivateKey(pubKey, x1, s1, x2, s2) ==
    LET key == Mod(Coefficient(x1, x2) * s1 + Coefficient(x2, x1) * s2)
    IN  IF x1 = x2 \/ key # pubKey THEN NoKey ELSE key

\* RecoverPrivateKeyWrapper: the server's share, and that of a peer which must be
\* in its parameters (the handler panics for another, and the request fails).
\* ExportHandler returns the bytes of the key, without leading zeros.
Export(serverShare, clientPeerID, clientShare) ==
    IF clientPeerID \notin Peers THEN Empty
    ELSE LET key == RecoverPrivateKey(d, BKs[Server], serverShare,
                                      BKs[clientPeerID], clientShare)
         IN  IF key = NoKey THEN Empty ELSE FillBytes(key, Len8(key))

-----------------------------------------------------------------------------
Init ==
    /\ pc  = "idle"
    /\ d   \in Points
    /\ in  = None
    /\ out = None

\* The signing process ends: nonce k, message z, for bytes or for a transaction.
\* It does not end with a zero.  The process signs the whole message, Verify and
\* RecoverCompact read h, its first 32 bytes, which is all of it unless SignBytes
\* was given a longer one.
SignerDone ==
    /\ pc = "idle"
    /\ \E k \in Points, z \in Scalars, h \in Scalars :
          /\ SignResult(k, z).r # 0
          /\ SignResult(k, z).s # 0
          /\ in' = [k |-> k, z |-> z, h |-> h]
          /\ out' = SignResult(k, z)
    /\ pc' = "raw"
    /\ UNCHANGED d

\* PostProcess.
SignReturns ==
    /\ pc = "raw"
    /\ out' = PostProcess(out, in.h)
    /\ pc' = IF out' = Empty THEN "failed" ELSE "signed"
    /\ UNCHANGED <<d, in>>

\* The hash of a transaction was signed, always with its chain id; z0 is its hash
\* without.  The error of EthereumTx.Sign is dropped: an empty transaction is
\* returned.
SignEthTransaction ==
    /\ pc = "signed"
    /\ in.h = in.z
    /\ \E type \in {"legacy", "dynamic"}, chainId \in ChainIds, z0 \in Scalars \ {in.z} :
          /\ in' = [k |-> in.k, z |-> in.z, z0 |-> z0, type |-> type, chainId |-> chainId]
          /\ out' = WithSignature(type, chainId, out)
    /\ pc' = "tx"
    /\ UNCHANGED d

\* The parameters of a transaction are read.
ReadNumber ==
    /\ pc = "idle"
    /\ \E form \in Forms, v \in 0..MaxValue, f \in 0..9 :
          /\ f # 0 => form \in {"dotted", "number"}
          /\ in' = [form |-> form, v |-> v, f |-> f]
          /\ \E n \in ParseBigInt(Written(form, v, f)) :
                out' = [n |-> n, uint64 |-> Uint64(n)]
    /\ pc' = "number"
    /\ UNCHANGED d

\* A device asks for the key with a peer id and a share that may be its own or not.
ExportHandler ==
    /\ pc = "idle"
    /\ \E slope \in Scalars, peer \in Peers \cup {"unknown"},
          share \in Scalars :
          /\ in' = [peer |-> peer, share |-> share,
                    own |-> peer \in Peers \ {Server} /\ share = ShareOf(peer, slope)]
          /\ out' = Export(ShareOf(Server, slope), peer, share)
    /\ pc' = "exported"
    /\ UNCHANGED d

Next == SignerDone \/ SignReturns \/ SignEthTransaction \/ ReadNumber \/ ExportHandler

Spec == Init /\ [][Next]_vars

-----------------------------------------------------------------------------
(* Properties.                                                             *)

\* No point but k and its opposite has the same r.
Alone(k) == \A i \in Points : Mod(X[i]) = Mod(X[k]) => X[i] = X[k]

\* A signature that Sign returns is low-S and its recovery id leads back to the
\* wallet's key from the 32 bytes that its readers look at; Sign fails only for a
\* longer message and in the corner where the other recovery id leads to no key at
\* all.  (The nonces whose x is above the group order are left out: recovery ids 2
\* and 3 are not tried.)
SignatureRecovers ==
    /\ pc = "signed" /\ X[in.k] < N /\ (in.h = in.z \/ Alone(in.k)) =>
          /\ SigS(out) <= N - SigS(out)
          /\ RecoverCompact(SigV(out) + 27, SigR(out), SigS(out), in.h) = d
    /\ pc = "failed" /\ X[in.k] < N /\ in.h = in.z =>
          Mod(2 * in.z + Mod(X[in.k]) * d) = 0

\* A legacy transaction that SignEthTransaction returns is from the wallet on its
\* chain, and from nobody on any other.  With chain id 0, which is what ParseBigInt
\* makes of a chain id it cannot read, it is bound to no chain, and never from the
\* wallet.
TransactionFromWallet ==
    pc = "tx" /\ X[in.k] < N /\ in.type = "legacy" =>
        \A c \in ChainIds :
            IF in.chainId = 0 THEN Sender(out, c, in.z, in.z0) # d
            ELSE Sender(out, c, in.z, in.z0) = IF c = in.chainId THEN d ELSE NoKey

\* Export returns the key of the wallet, in bytes, to the device that sent its own
\* share, and to no other (RecoverPrivateKey).
ExportedIsKey ==
    pc = "exported" => IF in.own THEN out # Empty /\ SetBytes(out) = d
                                 ELSE out = Empty

\* n is v and f tenths, as near as the precision allows, the fraction cut off.
Near(n, v, f, bits) ==
    /\ n * 2 ^ bits >= v * (2 ^ bits - 1)
    /\ 10 * n * 2 ^ bits <= (10 * v + f) * (2 ^ bits + 1)

\* A number of a transaction is read as it was written in hex or in decimals; with
\* a point, or as a number of JSON, as near as 64 and 53 bits allow, so exactly as
\* long as they hold it.  What cannot be read becomes 0, and a number of JSON past
\* the range of int64 becomes less than it was: no amount is read as more than was
\* meant (ParseBigInt).
ParsedAsMeant ==
    pc = "number" =>
        /\ in.form \in {"hex", "decimal"} => out.n = in.v
        /\ in.form = "dotted"     => Near(out.n, in.v, in.f, Dotted)
        /\ in.form = "scientific" => Near(out.n, in.v, 0, Dotted)
        /\ in.form = "number" =>
              \/ Near(out.n, in.v, in.f, Float)
              \/ /\ out.n < in.v
                 /\ 10 * 2 ^ (Word - 1) * 2 ^ Float <= (10 * in.v + in.f) * (2 ^ Float + 1)
        /\ in.form \in {"Hex", "exponent", "dots", "null"} => out.n = 0
        /\ out.n \in 0..2 ^ Word - 1 => out.uint64 = out.n

Byte == 0..Base - 1

\* The results have the form that their readers expect.
TypeOK ==
    /\ d  \in Points
    /\ pc \in {"idle", "raw", "signed", "failed", "tx", "number", "exported"}
    /\ pc = "raw" => out \in [r : Points, s : Points]
    /\ pc = "signed" => /\ out \in Seq(Byte)
                        /\ Len(out) = 2 * Width + 1
                        /\ SigV(out) \in {0, 1}
=============================================================================

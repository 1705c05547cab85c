------------------------------ MODULE CryptBk ------------------------------
(***************************************************************************)
(* cryptbk.c: handles that hold a certificate request, a certificate, a    *)
(* private key and a session key, and what is encrypted with them.  RSA,   *)
(* AES and X509 are OpenSSL's: a ciphertext is a sequence of cells that    *)
(* say which key made them.                                                *)
(***************************************************************************)
EXTENDS Integers, Sequences

CONSTANTS
  Handle,        (* the cryptbk_t there are                                *)
  KeyPair,       (* RSA keys, numbers above zero; 0 is none                *)
  RsaSize,       (* RSA_size: the length of a block of each                *)
  KeyLen,        (* RSA_KEYLEN: the length of the sums                     *)
  MaxText        (* bound: how long a plain text gets                      *)

VARIABLES
  crypt,    (* the handles: keys in req, cert and pkey; the session key's  *)
            (* place, the length of it and seskey_len                      *)
  msg,      (* plain: what was encrypted last, enc: the result, and the    *)
            (* pair of keys and the half of it that did it                 *)
  broken    (* handles with an RSA call that failed since the session key  *)
            (* was set                                                     *)

vars == <<crypt, msg, broken>>

CryptAssumption ==
  /\ KeyPair \subseteq Nat \ {0}
  /\ RsaSize \in [KeyPair -> Nat \ {0}]
  /\ KeyLen \in Nat \ {0}
  /\ MaxText \in Nat

NoKey == [at |-> "null", size |-> 0]

(* cryptbk_new.                                                            *)
New == [req |-> 0, cert |-> 0, pkey |-> 0, seskey |-> NoKey, seskey_len |-> 0]

Init ==
  /\ crypt = [h \in Handle |-> New]
  /\ msg = [plain |-> <<>>, enc |-> <<>>, pair |-> 0, half |-> "cert"]
  /\ broken = {}

Failed == UNCHANGED <<crypt, msg, broken>>

-----------------------------------------------------------------------------
(* cryptbk_req_gen: a new key pair and a request with it; with k = 0 it    *)
(* fails, and the handle has neither.                                      *)
cryptbk_req_gen(h, k) ==
  /\ crypt' = [crypt EXCEPT ![h].pkey = k, ![h].req = k]
  /\ UNCHANGED <<msg, broken>>

(* The public key a certificate is made for: the request comes first.      *)
ToSign(c) == IF c.req # 0 THEN c.req ELSE c.cert

(* A handle's request or certificate is signed anew by a handle that has a *)
(* private key.                                                            *)
cryptbk_req_sign(h, signer) ==
  /\ crypt[signer].pkey # 0
  /\ IF ToSign(crypt[h]) = 0 THEN Failed
     ELSE /\ crypt' = [crypt EXCEPT ![h].cert = ToSign(crypt[h])]
          /\ UNCHANGED <<msg, broken>>

(* The old key is freed before malloc, which may fail: seskey_len stays.   *)
cryptbk_seskey_rand(h, n) ==
  /\ crypt[h].seskey.at # "stack"
  /\ \/ crypt' = [crypt EXCEPT ![h].seskey = [at |-> "heap", size |-> n], ![h].seskey_len = n]
     \/ crypt' = [crypt EXCEPT ![h].seskey = NoKey]
  /\ UNCHANGED <<msg, broken>>

(* The old key is freed once the new one is there.                         *)
cryptbk_seskey_set(h, n) ==
  /\ crypt[h].seskey.at # "stack"
  /\ crypt' = [crypt EXCEPT ![h].seskey = [at |-> "heap", size |-> n], ![h].seskey_len = n]
  /\ UNCHANGED <<msg, broken>>

(* cryptbk_seskey_swap with a buffer of the caller's: a key he took out of *)
(* another handle, which gets this one's.                                  *)
cryptbk_seskey_swap(h, g) ==
  /\ crypt' = [crypt EXCEPT ![h].seskey = crypt[g].seskey, ![h].seskey_len = crypt[g].seskey_len,
                            ![g].seskey = crypt[h].seskey, ![g].seskey_len = crypt[h].seskey_len]
  /\ broken' = {x \in broken : x \notin {h, g}} \cup (IF h \in broken THEN {g} ELSE {})
                                                 \cup (IF g \in broken THEN {h} ELSE {})
  /\ UNCHANGED msg

cryptbk_delete(h) ==
  /\ crypt[h].seskey.at # "stack"
  /\ crypt' = [crypt EXCEPT ![h] = New]
  /\ UNCHANGED <<msg, broken>>

-----------------------------------------------------------------------------
(* What cryptbk_pack needs to write a part.                                *)
Present(c, part) == IF part = "seskey" THEN c.seskey.at = "heap" ELSE c[part] # 0

(* What it reads back: seskey_len goes along as the number of bytes of the *)
(* session key and is not set; with none the reader has freed its own.     *)
Unpacked(c, from, parts) ==
  LET read(part) == IF part \in parts THEN from[part] ELSE c[part]
      key == IF from.seskey_len > 0 THEN [at |-> "heap", size |-> from.seskey_len] ELSE NoKey
  IN  [c EXCEPT !.cert = read("cert"), !.req = read("req"), !.pkey = read("pkey"),
                !.seskey = IF "seskey" \in parts THEN key ELSE @]

(* A handle written to a buffer and read into another; when a part is      *)
(* missing the writer gives up, and the other stays as it is.              *)
cryptbk_copy(dst, src, parts) ==
  /\ "seskey" \in parts => "stack" \notin {crypt[dst].seskey.at, crypt[src].seskey.at}
  /\ IF \A part \in parts : Present(crypt[src], part)
     THEN /\ crypt' = [crypt EXCEPT ![dst] = Unpacked(@, crypt[src], parts)]
          /\ UNCHANGED <<msg, broken>>
     ELSE Failed

-----------------------------------------------------------------------------
(* A certificate has the public half of a key, pkey is the private half;   *)
(* what one half encrypts the other decrypts.                              *)
Halves == {"cert", "pkey"}
Other(half) == IF half = "cert" THEN "pkey" ELSE "cert"

(* RSA_public_encrypt and RSA_private_encrypt: a block of RSA_size cells.  *)
RsaBlock(pair, half, text) ==
  [i \in 1..RsaSize[pair] |-> [by |-> half, with |-> <<pair>>, at |-> i, data |-> text]]

(* Mutant: a half decrypts what it encrypted itself.                       *)
IsBlockOfEither(pair, half, cells) ==
  /\ Len(cells) = RsaSize[pair]
  /\ \E b \in {cells[1].data}, by \in Halves : cells = RsaBlock(pair, by, b)

(* RSA_public_decrypt and RSA_private_decrypt: the padding is only right   *)
(* when the other half of the same key encrypted the block.                *)
IsBlock(pair, half, cells) ==
  /\ Len(cells) = RsaSize[pair]
  /\ \E b \in {cells[1].data} : cells = RsaBlock(pair, Other(half), b)

(* AES in CFB mode; the key is the MD5 sums of the block's plain text, and *)
(* what is decrypted with another key is not text.                         *)
Aes(key, text) ==
  [i \in 1..Len(text) |-> [by |-> "seskey", with |-> key, at |-> i, data |-> text[i]]]

UnAes(key, cells) ==
  [i \in 1..Len(cells) |->
    IF cells[i].by = "seskey" /\ cells[i].with = key /\ cells[i].at = i
    THEN cells[i].data ELSE -1]

(* The bytes that fit into a block beside the padding.                     *)
Room(pair) == RsaSize[pair] - 11 - 1

FirstOf(cells, n) == SubSeq(cells, 1, IF n < Len(cells) THEN n ELSE Len(cells))

RestOf(cells, n) == SubSeq(cells, n + 1, Len(cells))

(* The first bytes go into a block, the rest is encrypted with their sums. *)
Encrypted(pair, half, text) ==
  LET first == FirstOf(text, Room(pair))
  IN  RsaBlock(pair, half, first) \o Aes(first, RestOf(text, Len(first)))

(* Mutant: the rest starts where it would in the plain text.               *)
DecryptedAtRoom(pair, half, cells) ==
  IF ~IsBlock(pair, half, FirstOf(cells, RsaSize[pair])) THEN <<>>
  ELSE LET first == cells[1].data
       IN  first \o UnAes(first, RestOf(cells, Room(pair)))

(* <<>> is failure: the first bytes are no block for this half.            *)
Decrypted(pair, half, cells) ==
  IF ~IsBlock(pair, half, FirstOf(cells, RsaSize[pair])) THEN <<>>
  ELSE LET first == cells[1].data
       IN  first \o UnAes(first, RestOf(cells, RsaSize[pair]))

(* Mutant: the handle keeps the key the rest was encrypted with.           *)
KeyAfterRsaKept(c, ok) ==
  [c EXCEPT !.seskey = [at |-> "stack", size |-> KeyLen], !.seskey_len = KeyLen]

(* cryptbk_crypt points seskey to an array of its own while it works, and  *)
(* an error leaves the loop before it is set back.                         *)
KeyAfterRsa(c, ok) ==
  IF ok THEN c
  ELSE [c EXCEPT !.seskey = [at |-> "stack", size |-> KeyLen], !.seskey_len = KeyLen]

(* CRYPTBK_MODE_PUBKEY takes the certificate's key, PRIVKEY the handle's.  *)
(* A block must have room for the sums, or nothing is done.                *)
Encrypt(h, half, text) ==
  LET pair == crypt[h][half]
  IN  /\ pair # 0
      /\ IF KeyLen > Room(pair) THEN Failed
         ELSE /\ msg' = [plain |-> text, enc |-> Encrypted(pair, half, text),
                         pair |-> pair, half |-> half]
              /\ crypt' = [crypt EXCEPT ![h] = KeyAfterRsa(@, TRUE)]
              /\ UNCHANGED broken

(* room: the caller's buffer is long enough for a block.                   *)
Decrypt(h, half, room) ==
  LET pair == crypt[h][half]
      text == IF room THEN Decrypted(pair, half, msg.enc) ELSE <<>>
  IN  /\ pair # 0
      /\ msg.enc # <<>>
      /\ IF KeyLen > RsaSize[pair] THEN Failed
         ELSE /\ crypt' = [crypt EXCEPT ![h] = KeyAfterRsa(@, text # <<>>)]
              /\ broken' = IF text = <<>> THEN broken \cup {h} ELSE broken
              /\ UNCHANGED msg

Next ==
  \/ \E h \in Handle :
       \/ \E k \in KeyPair \cup {0} : cryptbk_req_gen(h, k)
       \/ \E g \in Handle : cryptbk_req_sign(h, g)
       \/ \E g \in Handle \ {h} : cryptbk_seskey_swap(h, g)
       \/ \E n \in {16} : cryptbk_seskey_rand(h, n) \/ cryptbk_seskey_set(h, n)
       \/ cryptbk_delete(h)
  \/ \E dst, src \in Handle, parts \in {{"cert"}, {"cert", "pkey"}, {"req", "seskey"}} :
       dst # src /\ cryptbk_copy(dst, src, parts)
  \/ \E h \in Handle, half \in Halves, n \in 1..MaxText : Encrypt(h, half, [i \in 1..n |-> i])
  \/ \E h \in Handle, half \in Halves, room \in BOOLEAN : Decrypt(h, half, room)

Spec == Init /\ [][Next]_vars

-----------------------------------------------------------------------------
(* Whoever has the other half of the key gets back what was encrypted,     *)
(* however long it is, and nobody else gets anything: no other key, nor    *)
(* the half that encrypted it.                                             *)
RoundTrip ==
  msg.enc # <<>> =>
    \A pair \in KeyPair, half \in Halves :
      Decrypted(pair, half, msg.enc) =
        IF pair = msg.pair /\ half = Other(msg.half) THEN msg.plain ELSE <<>>

(* A handle's session key is its own: only an RSA call that failed leaves  *)
(* it with the array of a function that has returned.                      *)
OwnsKey == \A h \in Handle : crypt[h].seskey.at = "stack" => h \in broken

(* Their inductive strengthening: what is encrypted is so with a key that  *)
(* there is, and is the text.                                              *)
Holdings ==
  [req : KeyPair \cup {0}, cert : KeyPair \cup {0}, pkey : KeyPair \cup {0},
   seskey : [at : {"null", "heap", "stack"}, size : Nat], seskey_len : Nat]

IInv ==
  /\ crypt \in [Handle -> Holdings]
  /\ msg.enc = <<>> \/ /\ msg.pair \in KeyPair /\ KeyLen <= Room(msg.pair)
                       /\ msg.half \in Halves
                       /\ msg.plain \in Seq(Nat) /\ msg.plain # <<>>
                       /\ msg.enc = Encrypted(msg.pair, msg.half, msg.plain)
  /\ OwnsKey
=============================================================================

--------------------------- MODULE RatchetSessions ---------------------------
(* The double ratchet between two peers: RatchetSession (crypto/ratchet.rs),  *)
(* RatchetSessionManager with its serialized form (crypto/session_manager.rs) *)
(* and the envelope functions that choose a session (crypto/encrypt.rs).      *)
(* Keys are symbolic: a public key is <<party, number>> with number 0 for the *)
(* identity key, a Diffie-Hellman output is the pair of its public keys, a    *)
(* root or chain key is the sequence of outputs it was derived from, and a    *)
(* message key is a chain key with an index.  A message is readable exactly   *)
(* with its own message key.  The network loses, repeats and reorders.        *)
(*                                                                            *)
(* The second half is the privacy library (core/src/privacy): the choice of a *)
(* circuit, the onion built for it, the padding of a message and the schedule *)
(* of cover traffic, four machines that share no state.                       *)
EXTENDS Integers, FiniteSets, FiniteSetsExt, Sequences

CONSTANTS Initiators,       \* the peers that may open a session as senders
          MaxSkipKeys, MaxRatchetSteps,
          MaxSent, MaxPlain,        \* bounds on messages, and on those outside sessions
          MaxDeliveries, MaxUpsets  \* bounds on arrivals and on upsets

CONSTANTS HopPeers, SegmentOf,        \* candidate relays and their network segments
          MIN_HOPS, MAX_HOPS, MinReliability, MaxReliability,
          OnionNodes, MAX_ONION_HOPS, MaxMisroutes,
          PadBytes, STANDARD_SIZES, MaxBody,
          CoverRates, MINUTE, MaxCoverTime

ASSUME RatchetAssumption ==
    MaxSkipKeys \in Nat /\ MaxRatchetSteps \in Nat \ {0} /\ MaxSent \in Nat

VARIABLES ses,        \* [Parties -> {} or {session}]: the session with the other
          saved,      \* [Parties -> {} or {session}]: in the identity backup
          nextKey,    \* number of the next fresh key pair
          ratchetSent,       \* every message sent; a message may arrive any number of times
          deliveries, upsets,
          arrived,    \* [Parties -> numbers of the messages that arrived]
          opened,     \* history: how often the session decrypted each message
          troubled,   \* history: a session was replaced, forced or restored, or took
                      \* a ratchet step for a message of an earlier ratchet key
          discarded,  \* history: a skipped key gave way to another
          unread      \* history: a message that had to be readable was not

ratchetVars == <<ses, saved, nextKey, ratchetSent, deliveries, upsets, arrived, opened,
                 troubled, discarded, unread>>

Parties == {"a", "b"}
Other(p) == CHOOSE q \in Parties : q # p
Identity(p) == <<p, 0>>
DH(x, y) == {x, y}
SharedRoot == <<DH(Identity("a"), Identity("b"))>>

RatchetTypeOK ==
    /\ \A p \in Parties : Cardinality(ses[p]) <= 1 /\ Cardinality(saved[p]) <= 1
    /\ \A p \in Parties : \A s \in ses[p] :
         /\ Cardinality(s.skipped) <= MaxSkipKeys
         /\ s.init = (s.send # {})
         /\ s.identitySecret => s.recv = {}
    /\ \A m \in ratchetSent : m.no \in 1..MaxSent
    /\ {troubled, discarded, unread} \subseteq BOOLEAN

RatchetInit ==
    /\ ses = [p \in Parties |-> {}]
    /\ saved = [p \in Parties |-> {}]
    /\ nextKey = 1
    /\ ratchetSent = {}
    /\ deliveries = 0
    /\ upsets = 0
    /\ arrived = [p \in Parties |-> {}]
    /\ opened = [n \in 1..MaxSent |-> 0]
    /\ troubled = FALSE
    /\ discarded = FALSE
    /\ unread = FALSE

NewChain(root) == {[chain |-> root, n |-> 0]}

(* init_as_sender: the first sending chain goes to the peer's identity key.   *)
AsSender(p, key) ==
    LET root == Append(SharedRoot, DH(key, Identity(Other(p))))
    IN  [dh |-> key, their |-> {Identity(Other(p))}, root |-> root,
         send |-> NewChain(root), recv |-> {}, steps |-> 1, skipped |-> {},
         identitySecret |-> FALSE, init |-> TRUE]

(* init_as_receiver: the identity secret is kept for the first ratchet step.  *)
AsReceiver(p, key) ==
    [dh |-> key, their |-> {}, root |-> SharedRoot, send |-> {}, recv |-> {},
     steps |-> 0, skipped |-> {}, identitySecret |-> TRUE, init |-> FALSE]

-----------------------------------------------------------------------------
(* Receiving.                                                                 *)

(* Mutant: the receiving chain is computed with the new key pair. *)
HandleDhRatchetNewKey(p, s, theirs, key) ==
    LET root1 == Append(s.root, DH(key, theirs))
        root2 == Append(root1, DH(key, theirs))
    IN  [s EXCEPT !.dh = key, !.their = {theirs}, !.root = root2,
                  !.recv = NewChain(root1), !.send = NewChain(root2),
                  !.steps = @ + 1, !.identitySecret = FALSE, !.init = TRUE]
(* handle_dh_ratchet: both chains start afresh; keys of the old receiving     *)
(* chain that were not yet used are gone.                                     *)
HandleDhRatchet(p, s, theirs, key) ==
    LET first == IF s.identitySecret THEN Identity(p) ELSE s.dh
        root1 == Append(s.root, DH(first, theirs))
        root2 == Append(root1, DH(key, theirs))
    IN  [s EXCEPT !.dh = key, !.their = {theirs}, !.root = root2,
                  !.recv = NewChain(root1), !.send = NewChain(root2),
                  !.steps = @ + 1, !.identitySecret = FALSE, !.init = TRUE]

(* The skipped keys that are kept: the smallest numbers of a ratchet key go   *)
(* first; which ratchet key is smallest depends on its bytes.                 *)
KeptSkipped(keys) ==
    {S \in SUBSET keys :
        /\ Cardinality(S) = Min({Cardinality(keys), MaxSkipKeys})
        /\ \A k \in S, l \in keys : l.dh = k.dh /\ l.n > k.n => l \in S}

(* Mutant: a skipped key is looked up and not removed. *)
WithoutKeyKept(s, k) == s
WithoutKey(s, k) == [s EXCEPT !.skipped = @ \ {k}]

(* get_message_key: the key for message m, and the session after it; a        *)
(* refusal leaves the session as the ratchet step left it.                    *)
Refused(s) == [session |-> s, key |-> {}]
GetMessageKey(s, m) ==
    LET cached == {k \in s.skipped : k.dh = m.dh /\ k.n = m.n}
    IN  IF cached # {}
          THEN {[session |-> WithoutKey(s, k), key |-> {<<k.chain, k.n>>}] : k \in cached}
        ELSE IF s.recv = {} THEN {Refused(s)}
        ELSE LET c == CHOOSE c \in s.recv : TRUE
             IN  IF m.n < c.n \/ m.n - c.n > MaxSkipKeys THEN {Refused(s)}
                 ELSE {[session |-> [s EXCEPT !.recv = {[c EXCEPT !.n = m.n + 1]},
                                              !.skipped = S],
                        key |-> {<<c.chain, m.n>>}]
                       : S \in KeptSkipped(s.skipped \union
                            {[dh |-> m.dh, n |-> i, chain |-> c.chain] : i \in c.n..(m.n - 1)})}

(* More keys are to be skipped than can be kept beside the n kept already.    *)
TooFar(s, m, n) == \E c \in s.recv : n + m.n - c.n > MaxSkipKeys

(* decrypt: a ratchet key other than the last one starts a ratchet step,      *)
(* before anything about the message is known to be genuine or readable.      *)
Stepped(p, s, m, key) == IF m.dh \in s.their THEN s ELSE HandleDhRatchet(p, s, m.dh, key)
Decrypted(p, s, m, key) == GetMessageKey(Stepped(p, s, m, key), m)

(* decrypt_message: the key agreed between the message's one-time key and our *)
(* identity key.                                                              *)
DecryptMessage(m) == <<<<DH(m.dh, Identity(m.to))>>, 0>>

(* A message outside any session arrives: the session plays no part.          *)
ReceivePlain(m) ==
    /\ m.plain
    /\ deliveries < MaxDeliveries
    /\ deliveries' = deliveries + 1
    /\ arrived' = [arrived EXCEPT ![m.to] = @ \union {m.no}]
    /\ unread' = (unread \/ DecryptMessage(m) # <<m.chain, m.n>>)
    /\ UNCHANGED <<ses, saved, nextKey, ratchetSent, upsets, opened, troubled, discarded>>

(* A message of a session arrives, for the first time or again.  Without a session it is   *)
(* refused (decrypt_with_ratchet_fallback); the decryption fails when the key *)
(* is not the message's, and the session keeps every change.                  *)
Receive(m) ==
    LET p == m.to
        again == m.no \in arrived[p]
        late == \E k \in ratchetSent : k.no \in arrived[p] /\ k.no > m.no /\ ~k.plain
    IN  /\ ~m.plain
        /\ deliveries < MaxDeliveries
        /\ deliveries' = deliveries + 1
        /\ \/ /\ ses[p] = {}
              /\ UNCHANGED <<ses, nextKey, arrived, opened, troubled, discarded, unread>>
           \/ \E s \in ses[p], r \in UNION {Decrypted(p, s, m, <<p, nextKey>>) : s \in ses[p]} :
              /\ ses' = [ses EXCEPT ![p] = {r.session}]
              /\ nextKey' = IF m.dh \in s.their THEN nextKey ELSE nextKey + 1
              /\ arrived' = [arrived EXCEPT ![p] = @ \union {m.no}]
              /\ opened' = [opened EXCEPT ![m.no] =
                                IF r.key = {<<m.chain, m.n>>} THEN @ + 1 ELSE @]
              /\ LET stepped == Stepped(p, s, m, <<p, nextKey>>)
                     old     == m.dh \notin s.their /\ (again \/ late)
                 IN  /\ troubled' = (troubled \/ old)
                     /\ discarded' = (discarded \/ TooFar(stepped, m, Cardinality(stepped.skipped)))
                     /\ unread' = \/ unread
                                  \/ /\ r.key # {<<m.chain, m.n>>}
                                     /\ ~troubled /\ ~old /\ ~again
                                     /\ ~TooFar(stepped, m, 0)
                                     /\ late => ~discarded
        /\ UNCHANGED <<saved, ratchetSent, upsets>>

-----------------------------------------------------------------------------
(* Sending.                                                                   *)

(* encrypt_message: a one-time key with the addressee's identity key.         *)
EncryptMessage(p, key) ==
    [to |-> Other(p), no |-> Cardinality(ratchetSent) + 1, plain |-> TRUE,
     dh |-> key, n |-> 0, chain |-> <<DH(key, Identity(Other(p)))>>]

(* encrypt_with_ratchet_fallback: without an initialized session the message  *)
(* goes outside any session.                                                  *)
SendPlain(p) ==
    /\ Cardinality(ratchetSent) < MaxSent
    /\ Cardinality({m \in ratchetSent : m.plain}) < MaxPlain
    /\ \A s \in ses[p] : ~s.init
    /\ ratchetSent' = ratchetSent \union {EncryptMessage(p, <<p, nextKey>>)}
    /\ nextKey' = nextKey + 1
    /\ UNCHANGED <<ses, saved, deliveries, upsets, arrived, opened, troubled, discarded, unread>>

(* Otherwise the session encrypts it (encrypt); a session out of steps is an  *)
(* error.                                                                     *)
Send(p) ==
    /\ Cardinality(ratchetSent) < MaxSent
    /\ \E s \in ses[p] : \E c \in s.send :
         /\ s.init
         /\ s.steps < MaxRatchetSteps
         /\ ratchetSent' = ratchetSent \union {[to |-> Other(p), no |-> Cardinality(ratchetSent) + 1,
                                  plain |-> FALSE, dh |-> s.dh, n |-> c.n, chain |-> c.chain]}
         /\ ses' = [ses EXCEPT ![p] = {[s EXCEPT !.send = {[c EXCEPT !.n = @ + 1]}]}]
    /\ UNCHANGED <<saved, nextKey, deliveries, upsets, arrived, opened, troubled, discarded, unread>>

-----------------------------------------------------------------------------
(* Sessions come and go.                                                      *)

(* get_or_create_session.  Two peers that both start as senders never agree.  *)
GetOrCreateSession(p) ==
    /\ ses[p] = {}
    /\ p \in Initiators
    /\ ses' = [ses EXCEPT ![p] = {AsSender(p, <<p, nextKey>>)}]
    /\ nextKey' = nextKey + 1
    /\ troubled' = (troubled \/ ses[Other(p)] # {} \/ \E m \in ratchetSent : ~m.plain)
    /\ UNCHANGED <<saved, ratchetSent, deliveries, upsets, arrived, opened, discarded, unread>>

(* A new session has decrypted nothing yet. *)
Forgotten(p) == [n \in 1..MaxSent |-> IF \E m \in ratchetSent : m.no = n /\ m.to = p THEN 0 ELSE opened[n]]

Upset == upsets < MaxUpsets /\ upsets' = upsets + 1

(* create_receiver_session replaces a session that is there.                  *)
CreateReceiverSession(p) ==
    /\ IF ses[p] = {} THEN UNCHANGED upsets ELSE Upset
    /\ \E s \in ses[Other(p)] : s.init
    /\ ses' = [ses EXCEPT ![p] = {AsReceiver(p, <<p, nextKey>>)}]
    /\ nextKey' = nextKey + 1
    /\ troubled' = (troubled \/ ses[p] # {} \/ saved[p] # {})
    /\ opened' = Forgotten(p)
    /\ UNCHANGED <<saved, ratchetSent, deliveries, arrived, discarded, unread>>

(* force_ratchet: a new key pair and sending chain without waiting for the    *)
(* peer.                                                                      *)
ForceRatchet(p) ==
    /\ Upset
    /\ \E s \in ses[p] :
         LET key == <<p, nextKey>>
         IN  ses' = [ses EXCEPT ![p] =
                {IF s.their = {} THEN [s EXCEPT !.dh = key, !.steps = @ + 1]
                 ELSE LET root == Append(s.root, DH(key, CHOOSE t \in s.their : TRUE))
                      IN  [s EXCEPT !.dh = key, !.steps = @ + 1, !.root = root,
                                    !.send = NewChain(root)]}]
    /\ nextKey' = nextKey + 1
    /\ troubled' = TRUE
    /\ UNCHANGED <<saved, ratchetSent, deliveries, arrived, opened, discarded, unread>>

(* SerializableRatchetSession: the skipped keys are not part of it.           *)
Serialized(s) == [s EXCEPT !.skipped = {}]
(* deserialize_sessions_strict: a session that is there is kept.              *)
Imported(p) == IF ses[p] # {} THEN ses[p] ELSE saved[p]

(* export_identity_backup, with serialize_sessions.                           *)
BackUp(p) ==
    /\ ses[p] # {}
    /\ \A q \in Parties : saved[q] = {}     \* bound: one backup
    /\ saved' = [saved EXCEPT ![p] = {Serialized(s) : s \in ses[p]}]
    /\ UNCHANGED <<ses, nextKey, ratchetSent, deliveries, upsets, arrived, opened, troubled, discarded, unread>>
(* import_identity_backup, into a new installation or over a live one.        *)
ImportBackup(p) ==
    /\ saved[p] # {}
    /\ ses' = [ses EXCEPT ![p] = Imported(p)]
    /\ troubled' = (troubled \/ ses[p] = {})
    /\ opened' = IF ses[p] = {} THEN Forgotten(p) ELSE opened
    /\ UNCHANGED <<saved, nextKey, ratchetSent, deliveries, upsets, arrived, discarded, unread>>

(* remove_session, or an installation that starts over: sessions live only in *)
(* memory (RatchetSessionManager::new).                                       *)
RemoveSession(p) ==
    /\ ses[p] # {}
    /\ Upset
    /\ ses' = [ses EXCEPT ![p] = {}]
    /\ troubled' = TRUE
    /\ opened' = Forgotten(p)
    /\ UNCHANGED <<saved, nextKey, ratchetSent, deliveries, arrived, discarded, unread>>

RatchetNext ==
    \/ \E m \in ratchetSent : ReceivePlain(m) \/ Receive(m)
    \/ \E p \in Parties :
         \/ GetOrCreateSession(p) \/ CreateReceiverSession(p)
         \/ SendPlain(p) \/ Send(p) \/ ForceRatchet(p) \/ BackUp(p) \/ ImportBackup(p) \/ RemoveSession(p)

RatchetSpec == RatchetInit /\ [][RatchetNext]_ratchetVars

-----------------------------------------------------------------------------
(* A session decrypts a message at most once, however often and in whatever   *)
(* order copies of it arrive and wherever ratchet steps, forced ones too,     *)
(* fall between them: its key is used up (get_message_key).                   *)
OpenedOnce == \A n \in 1..MaxSent : opened[n] <= 1

(* Two sessions stay in step while messages cross, are lost, overtake each    *)
(* other and come twice: what comes in order is decrypted whenever no more    *)
(* than the skip limit is missing before it, and what was overtaken within    *)
(* one ratchet key is decrypted with its skipped key unless that key gave way *)
(* to others (get_message_key).  It stops at a session that is replaced,      *)
(* forced or restored and at a late or repeated message of an earlier ratchet *)
(* key, for which decrypt takes a ratchet step that parts the two sessions.   *)
InStepReadable == ~unread

-----------------------------------------------------------------------------
(* CircuitBuilder.                                                            *)
VARIABLES reliability,   \* reliability_score of each peer
          picking,       \* select_diverse_hops in its loop, or no build
          hopPath        \* the last circuit built: [dest, hops, diverse], or none

hopVars == <<reliability, picking, hopPath>>

NoHopPath == [dest |-> "none", hops |-> <<>>, diverse |-> FALSE]
NoPick    == [dest |-> "none", want |-> 0, segs |-> <<>>, idx |-> 0, hops |-> <<>>]
HopsOf(s) == {s[i] : i \in DOMAIN s}

HopInit ==
    /\ reliability = [p \in HopPeers |-> MaxReliability]
    /\ picking = NoPick
    /\ hopPath = NoHopPath

(* Mutant: the destination is a candidate.                                    *)
CandidatesAll(dest) == {p \in HopPeers : reliability[p] >= MinReliability}

Candidates(dest) == {p \in HopPeers : reliability[p] >= MinReliability /\ p # dest}

Orders(S) == {s \in [1..Cardinality(S) -> S] : HopsOf(s) = S}

(* build_circuit with n hops: select_random_hops takes any n candidates,      *)
(* select_diverse_hops enters its loop over the segments, in the order the    *)
(* hash map gives them.                                                       *)
BuildCircuit(dest, n, diverse) ==
    /\ picking = NoPick
    /\ n <= Cardinality(HopPeers)
    /\ Cardinality(Candidates(dest)) >= n
    /\ IF diverse
         THEN /\ \E segs \in Orders({SegmentOf[p] : p \in Candidates(dest)}) :
                   picking' = [dest |-> dest, want |-> n, segs |-> segs, idx |-> 0, hops |-> <<>>]
              /\ UNCHANGED hopPath
         ELSE /\ \E hops \in UNION {Orders(S) : S \in kSubset(n, Candidates(dest))} :
                   hopPath' = [dest |-> dest, hops |-> hops, diverse |-> FALSE]
              /\ UNCHANGED picking
    /\ UNCHANGED reliability

(* One turn of the loop: the most reliable unused candidate of the segment.   *)
PickHop ==
    LET segment == picking.segs[(picking.idx % Len(picking.segs)) + 1]
        unused  == {p \in Candidates(picking.dest) : SegmentOf[p] = segment}
                       \ (HopsOf(picking.hops) \cup {picking.dest})
        best    == {p \in unused : \A q \in unused : reliability[p] >= reliability[q]}
    IN  /\ picking # NoPick
        /\ \E picked \in IF best = {} THEN {<<>>} ELSE {<<p>> : p \in best} :
             LET hops == picking.hops \o picked
             IN  IF Len(hops) = picking.want
                   THEN /\ hopPath' = [dest |-> picking.dest, hops |-> hops, diverse |-> TRUE]
                        /\ picking' = NoPick
                   ELSE /\ picking' = [picking EXCEPT !.hops = hops, !.idx = @ + 1]
                        /\ UNCHANGED hopPath
        /\ UNCHANGED reliability

(* update_peer_reliability; the builder is locked while it builds.            *)
HopReliability(p, score) ==
    /\ picking = NoPick
    /\ reliability' = [reliability EXCEPT ![p] = score]
    /\ UNCHANGED <<picking, hopPath>>

HopNext ==
    \/ \E dest \in HopPeers, n \in MIN_HOPS..MAX_HOPS, diverse \in BOOLEAN : BuildCircuit(dest, n, diverse)
    \/ PickHop
    \/ \E p \in HopPeers, score \in 0..MaxReliability : HopReliability(p, score)

HopSpec == HopInit /\ [][HopNext]_hopVars

-----------------------------------------------------------------------------
(* Onions.  An onion is the path whose layers are still on it.  The bytes a   *)
(* node holds are an envelope, the plain data, or what peel_onion_layer       *)
(* returns: the length-prefixed bytes of a layer or of the payload, which do  *)
(* not parse as an envelope.                                                  *)
VARIABLES packet,      \* [at, form, path]: who holds what, or no packet
          onionPath,   \* the path asked for
          peeled,      \* nodes that peeled a layer, in order
          nextHop,     \* what the last peeling revealed: a node, or "none"
          misroutes

onionVars == <<packet, onionPath, peeled, nextHop, misroutes>>

NoPacket == [at |-> "none", form |-> "none", path |-> <<>>]

OnionInit ==
    /\ packet = NoPacket /\ onionPath = <<>> /\ peeled = <<>> /\ nextHop = "none"
    /\ misroutes = 0

(* Mutant: the layers are wrapped in the order of the path.                   *)
ConstructOnionForward(path) ==
    [at |-> path[1], form |-> "envelope",
     path |-> [i \in 1..Len(path) |-> path[Len(path) + 1 - i]]]

(* construct_onion: the destination's layer first, each relay's around it.    *)
ConstructOnion(path) == [at |-> path[1], form |-> "envelope", path |-> path]

(* prepare_onion_message: without relay keys the data stays as it is; more    *)
(* than MAX_ONION_HOPS keys, the destination's included, are refused.         *)
PrepareOnionMessage(path) ==
    /\ packet = NoPacket
    /\ onionPath' = path
    /\ packet' = IF path = <<>> THEN [NoPacket EXCEPT !.form = "plain"]
                 ELSE IF Len(path) > MAX_ONION_HOPS THEN NoPacket
                 ELSE ConstructOnion(path)
    /\ UNCHANGED <<peeled, nextHop, misroutes>>

(* peel_layer and peel_onion_layer: the holder's key opens the outer layer    *)
(* only if it was made for it.                                                *)
PeelOnionLayer ==
    /\ packet.form = "envelope" /\ Head(packet.path) = packet.at
    /\ peeled' = Append(peeled, packet.at)
    /\ nextHop' = IF Len(packet.path) = 1 THEN "none" ELSE packet.path[2]
    /\ packet' = [packet EXCEPT !.form = IF Len(packet.path) = 1 THEN "payload" ELSE "layer",
                                !.path = Tail(@)]
    /\ UNCHANGED <<onionPath, misroutes>>

(* The application passes the result on, as it is or rebuilt as an envelope;  *)
(* the network may bring a packet to another node.                            *)
ForwardOnion(rebuild) ==
    /\ packet.form = "layer" /\ packet.at # nextHop
    /\ packet' = [packet EXCEPT !.at = nextHop, !.form = IF rebuild THEN "envelope" ELSE @]
    /\ UNCHANGED <<onionPath, peeled, nextHop, misroutes>>

MisrouteOnion(n) ==
    /\ packet.form = "envelope" /\ misroutes < MaxMisroutes
    /\ misroutes' = misroutes + 1
    /\ packet' = [packet EXCEPT !.at = n]
    /\ UNCHANGED <<onionPath, peeled, nextHop>>

OnionNext ==
    \/ \E path \in UNION {[1..n -> OnionNodes] : n \in 0..(MAX_ONION_HOPS + 1)} : PrepareOnionMessage(path)
    \/ PeelOnionLayer
    \/ \E rebuild \in BOOLEAN : ForwardOnion(rebuild)
    \/ \E n \in OnionNodes : MisrouteOnion(n)

OnionSpec == OnionInit /\ [][OnionNext]_onionVars

-----------------------------------------------------------------------------
(* Padding.  128 marks the start of the padding and may occur in a message.   *)
VARIABLE body   \* a message

padVars == <<body>>

PadInit == body = <<>>
PadNext == \E b \in PadBytes : Len(body) < MaxBody /\ body' = Append(body, b)
PadSpec == PadInit /\ [][PadNext]_padVars

TooLarge == <<-1>>

(* pad_message                                                                *)
PadMessage(m, target) ==
    IF Len(m) > target THEN TooLarge
    ELSE m \o <<128>> \o [i \in 1..(target - Len(m) - 1) |-> 0]

(* Mutant: the first marker is taken.                                         *)
UnpadMessageFirst(m) ==
    LET marks == {i \in DOMAIN m : m[i] = 128}
    IN  SubSeq(m, 1, Min(marks) - 1)

(* unpad_message: up to the last marker, if only zeros follow it.             *)
UnpadMessage(m) ==
    LET marks == {i \in DOMAIN m : m[i] = 128}
    IN  IF marks = {} \/ \E i \in (Max(marks) + 1)..Len(m) : m[i] # 0 THEN TooLarge
        ELSE SubSeq(m, 1, Max(marks) - 1)

(* The sizes apply_padding_scheme and pad_to_next_standard_size pad to: the   *)
(* next power of two and the smallest standard size that holds the message.   *)
PowersOfTwo == {2^k : k \in 0..MaxBody}
SchemeTargets(m) ==
    {Min({n \in PowersOfTwo : n >= Len(m)})} \cup
    {s \in STANDARD_SIZES : s >= Len(m) /\ \A u \in STANDARD_SIZES : u >= Len(m) => s <= u}

-----------------------------------------------------------------------------
(* CoverTrafficScheduler inside the relay engine.                             *)
VARIABLES coverRate,      \* messages per minute, 0 without a scheduler
          coverLast,      \* last_generation_time; -1 is the epoch
          coverNow,       \* the system clock, which may be set back
          coverSent,      \* time of the schedule's last message, or -1 (ghost)
          coverGap        \* between its last two messages, or -1 (ghost)

coverVars == <<coverRate, coverLast, coverNow, coverSent, coverGap>>

CoverInit == coverRate = 0 /\ coverLast = -1 /\ coverNow = 0 /\ coverSent = -1 /\ coverGap = -1

(* message_interval_ms                                                        *)
CoverInterval(rate) == Max({MINUTE \div rate, 1})

(* set_cover_traffic: a new scheduler, due at once; a rate of zero counts as  *)
(* one.                                                                       *)
SetCoverTraffic(enabled, rate) ==
    /\ coverRate' = IF enabled THEN Max({rate, 1}) ELSE 0
    /\ coverLast' = -1 /\ coverSent' = -1 /\ coverGap' = -1
    /\ UNCHANGED coverNow

(* should_generate_cover_traffic: after more than the interval, or when the   *)
(* clock is behind the last generation.                                       *)
CoverDue ==
    /\ coverRate > 0
    /\ \/ coverLast = -1
       \/ coverNow < coverLast
       \/ coverNow - coverLast > CoverInterval(coverRate)

(* Mutant: the time of the generation is not recorded.                        *)
GeneratedAtUnrecorded == coverLast

(* generate_and_update: when the message was generated.                       *)
GeneratedAt == coverNow

(* generate_cover_traffic_if_due                                              *)
GenerateCoverTraffic ==
    /\ CoverDue
    /\ coverLast' = GeneratedAt
    /\ coverSent' = coverNow
    /\ coverGap' = IF coverSent = -1 THEN -1 ELSE coverNow - coverSent
    /\ UNCHANGED <<coverRate, coverNow>>

CoverClock(t) ==
    /\ coverNow' = t
    /\ coverSent' = IF t < coverNow THEN -1 ELSE coverSent
    /\ UNCHANGED <<coverRate, coverLast, coverGap>>

CoverNext ==
    \/ \E enabled \in BOOLEAN, rate \in CoverRates : SetCoverTraffic(enabled, rate)
    \/ GenerateCoverTraffic
    \/ \E t \in 0..MaxCoverTime : CoverClock(t)

CoverSpec == CoverInit /\ [][CoverNext]_coverVars

-----------------------------------------------------------------------------
(* A circuit has as many hops as asked for, all different and none of them    *)
(* the destination, and a diverse one uses as many segments as there are      *)
(* hops to fill.  The loop of select_diverse_hops ends: each round over the   *)
(* segments finds at least one hop, because the destination is not counted    *)
(* among the candidates.                                                      *)
CircuitsSound ==
    /\ Cardinality(HopsOf(hopPath.hops)) = Len(hopPath.hops)
    /\ hopPath.dest \notin HopsOf(hopPath.hops)
    /\ picking # NoPick =>
          /\ picking.idx <= picking.want * Len(picking.segs)
          /\ Cardinality({SegmentOf[p] : p \in HopsOf(picking.hops)}) =
                Min({Len(picking.hops), Len(picking.segs)})

(* Layers come off in the order of the path, at the nodes of the path only,   *)
(* wherever the network takes the onion, and the payload appears at its end   *)
(* (construct_onion, peel_layer).                                             *)
OnionsSound ==
    /\ peeled = SubSeq(onionPath, 1, Len(peeled))
    /\ packet.form = "payload" => peeled = onionPath

(* Unpadding gives back every message, whatever size it was padded to and     *)
(* whether or not markers occur in it (pad_message, unpad_message).           *)
PaddingReversible ==
    \A target \in SchemeTargets(body) \cup Len(body)..MaxBody :
        UnpadMessage(PadMessage(body, target)) = body

(* Between two cover messages of one schedule more than its interval passes,  *)
(* unless the clock was set back.                                             *)
CoverPaced == coverGap # -1 => coverGap > CoverInterval(coverRate)

(* Two sessions that exchange messages, lose them, see copies and see them    *)
(* overtake each other: each message is decrypted at most once, and the       *)
(* sessions stay in step; circuits are made of different hops, onions open    *)
(* along their path, padding comes off and cover traffic keeps its pace.      *)
RatchetSound ==
    /\ OpenedOnce /\ InStepReadable
    /\ CircuitsSound /\ OnionsSound /\ PaddingReversible /\ CoverPaced
=============================================================================

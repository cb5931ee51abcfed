------------------------------ MODULE Formats ------------------------------
(***************************************************************************)
(* What the three credential formats (pkg/formats/claudecreds, codexauth,  *)
(* geminioauth) decide about one credential file: how two snapshots        *)
(* compare and whether a snapshot is worth propagating.  A credential is   *)
(* an opaque element of Cred; its fingerprint (sha256 of the raw bytes) is *)
(* the element itself, and only the two timestamps the decisions read are  *)
(* kept.                                                                   *)
(***************************************************************************)
EXTENDS Integers

CONSTANTS
    Cred,         \* the credential files that exist (raw bytes = fingerprint)
    expiresAt,    \* Cred -> time; 0 stands for a zero time (no usable expiry)
    lastRefresh,  \* Cred -> time of codex's last_refresh (codex only)
    FormatName,   \* "claude", "codex" or "gemini": the profile's format
    Skew          \* the refresh safety window; 0 for claude

ASSUME FormatsAssumption ==
    /\ expiresAt \in [Cred -> Nat]
    /\ lastRefresh \in [Cred -> Nat]
    /\ FormatName \in {"claude", "codex", "gemini"}
    /\ Skew \in Nat

(***************************************************************************)
(* Compare(strategy, a, b).  Each format offers a single strategy, so the  *)
(* mediator's strategy fallback always ends with that one.                 *)
(***************************************************************************)
Sign(x, y) == IF x > y THEN 1 ELSE IF x < y THEN -1 ELSE 0

CompareExpiry(c, d) == Sign(expiresAt[c], expiresAt[d])

CompareCodex(c, d) ==
    IF CompareExpiry(c, d) # 0
    THEN CompareExpiry(c, d)
    ELSE Sign(lastRefresh[c], lastRefresh[d])

Compare(c, d) ==
    IF FormatName = "codex" THEN CompareCodex(c, d) ELSE CompareExpiry(c, d)

\* c is strictly preferred to d by the format's strategy.
Newer(c, d) == Compare(c, d) > 0

(***************************************************************************)
(* Validate(snap, LiveCheck: false) at time t.  Claude has no skew.  A     *)
(* codex access token whose exp cannot be decoded stays usable.            *)
(***************************************************************************)
Status == {"ok", "scope_warn", "unreachable", "expired", "revoked", "parse_error"}

Validate(c, t) ==
    IF expiresAt[c] = 0
    THEN IF FormatName = "codex" THEN "scope_warn" ELSE "expired"
    ELSE IF t + Skew < expiresAt[c] THEN "ok" ELSE "expired"
============================================================================

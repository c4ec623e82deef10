---------------------------- MODULE AddressText ----------------------------
(***************************************************************************)
(* Sui addresses as the enclave handles them: as text.  One account has     *)
(* several spellings: hexadecimal digits in either case, and, when its 64   *)
(* digit form starts with zeros, with or without those zeros.  Every        *)
(* comparison the enclave makes is a comparison of spellings, so what its   *)
(* two normalisations do to a spelling decides what an allowlist or a       *)
(* ledger key matches.                                                      *)
(***************************************************************************)

CONSTANTS
    Accounts,       \* addresses: vaults, recipients and Move packages
    ShortAccounts   \* the accounts whose 64 digit form starts with a zero

ASSUME ShortAccountsAssumption == ShortAccounts \subseteq Accounts

(* A spelling: the account, whether a digit is upper case, whether leading  *)
(* zeros are written.                                                       *)
Texts ==
    {t \in [who : Accounts, upper : BOOLEAN, padded : BOOLEAN] :
        t.padded => t.who \in ShortAccounts}

(* str::to_ascii_lowercase, which simulation.rs calls normalize_address.    *)
NormalizeAddress(t) == [t EXCEPT !.upper = FALSE]

(* policy_source.rs lowers the case and drops the leading zeros as well.    *)
NormalizeSuiAddress(t) == [NormalizeAddress(t) EXCEPT !.padded = FALSE]

(* A wrong comparison, for sensitivity: the case matters.                   *)
EqExactly(s, t) == s = t

(* str::eq_ignore_ascii_case *)
EqIgnoreAsciiCase(s, t) == NormalizeAddress(s) = NormalizeAddress(t)

(* How a fullnode spells an address in a JSON-RPC answer: all 64 digits,    *)
(* in lower case.                                                           *)
FullnodeText(a) ==
    [who |-> a, upper |-> FALSE, padded |-> a \in ShortAccounts]
=============================================================================

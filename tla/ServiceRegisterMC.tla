------------------------- MODULE ServiceRegisterMC --------------------------
(* Small instances of ServiceRegister for TLC, and of the base64 of its puts. *)
EXTENDS ServiceRegister, Base64

Everything == {"grant", "keepalive", "put", "revoke", "broken", "timer", "entry", "task", "expire"}
Outage == {"grant"}

\* Every remainder of the length by three, with all bits clear or set, single bits
\* and bits on both sides of the cuts.
Texts == UNION {[1 .. n -> {0, 1, 63, 64, 170, 255}] : n \in 1 .. 4}
ASSUME EtcdCanDecode == \A s \in Texts : IsBase64Of(base64Encoding(s), s)
ASSUME ReadsWhatWasPut == \A s \in Texts : RoundTrip(s)
=============================================================================

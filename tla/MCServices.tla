------------------------------ MODULE MCServices ------------------------------
EXTENDS Services, TLC

\* One kind of inbound that can be routed and one over UDP.
MCKinds == {[sni |-> TRUE, transport |-> "path"], [sni |-> FALSE, transport |-> "udp"]}

\* Two cores, and two parts that are copied.
MCFiles == [cores |-> Client, certs |-> {"pem"}, warp |-> {"account"}]
MCCopied == <<"certs", "warp">>

\* The two clients, domains, users, editors, requests and cores are alike.
Sym == Permutations(Client)

\* What happens to certificates after their history is disturbed, which it
\* stays, is not followed further: no property speaks of it.
Followed == part = "certificates" => ~certDisturbed
===============================================================================

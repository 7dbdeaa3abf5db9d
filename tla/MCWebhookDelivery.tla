-------------------------- MODULE MCWebhookDelivery --------------------------
EXTENDS WebhookDelivery, TLC

Url(proto, host) == [proto |-> proto, creds |-> FALSE, host |-> host]
Public == Url("https", Name(FALSE))
Elsewhere == Url("https", Ipv4(172, 31))

MCUrls == {Public, Elsewhere}
MCDnsAnswers ==
    {<<Ipv4(172, 32)>>,
     <<Ipv4(93, 184), Ipv4(10, 0)>>,
     <<Embedded("dotted", 172, 31)>>,
     <<Ipv6(65152, "other")>>,
     <<Ipv6(65168, "other")>>}

Symmetry == Permutations(Workers)
=============================================================================

------------------------ MODULE MCSignalingListener ------------------------
\* A call's INVITE, the response to it and a packet that is not SIP.
EXTENDS SignalingListener
ShortCall == <<"INVITE", "response", "other">>
============================================================================

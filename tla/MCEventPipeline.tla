--------------------------- MODULE MCEventPipeline ---------------------------
(* Instances of EventPipeline for TLC.                                      *)
EXTENDS EventPipeline, TLC

CONSTANTS d1, d2

Event(topic, number, about, rest) ==
    [topic |-> topic, number |-> number, about |-> about, rest |-> rest]

\* Attestations of committees 1 and 66, two runs that confirm one block, a
\* payload on both its topics and without content, and checkpoints of epoch 2
\* (slot 64), of epoch 7 (too far) and of epoch 10 (slot 320, 64 after the wrap).
Attestation1  == Event("single_attestation", 60, 1, 0)
Attestation2  == Event("single_attestation", 60, 66, 0)
Confirmation1 == Event("fast_confirmation", 60, 1, 1)
Confirmation2 == Event("fast_confirmation", 60, 1, 2)
Payload       == Event("execution_payload", 60, 1, 0)
PayloadGossip == Event("execution_payload_gossip", 60, 1, 0)
NilPayload    == Event("execution_payload", 0, NoPayload, 0)
Checkpoint    == Event("finalized_checkpoint", 2, 1, 0)
Alien         == Event("finalized_checkpoint", 7, 1, 0)
Wrapped       == Event("finalized_checkpoint", 10, 1, 0)

MCPairs ==
    {{Attestation1}, {Attestation1, Attestation2}, {Confirmation1, Confirmation2},
     {Payload, PayloadGossip}, {NilPayload, Alien}, {Checkpoint, Wrapped}}

MCEvents == UNION MCPairs

MCStreams ==
    {stream \in [Deliveries -> MCEvents] : {stream[d] : d \in Deliveries} \in MCPairs}

Copies == Permutations(Deliveries)
=============================================================================

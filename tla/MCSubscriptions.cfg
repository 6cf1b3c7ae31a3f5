\* A block topic, the two opt-in topics, limits on both sides of the lists.
SPECIFICATION Spec
CONSTANTS
    AllTopics = {"block", "single_attestation", "payload_attestation_message"}
    OptInTopics = {"single_attestation", "payload_attestation_message"}
    Attestation = "single_attestation"
    SubnetLists <- MCSubnetLists
    Limits = {1, 2}
INVARIANTS TypeOK OptInTopicsNeedConsent SubscriptionMatchesSelection

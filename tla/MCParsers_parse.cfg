\* A byte of 4 values: 2 characters in a string, 243 bytes in a container.
CONSTANTS
    Base = 4
    Leads = {13}
    Trails = {14}
    MaxDescriptors = 4
    MaxEntries = 2
    MaxName = 4
SPECIFICATION Spec
INVARIANTS DatasetsReadBack ListingsReadBack DescriptorsReadBack
CHECK_DEADLOCK FALSE

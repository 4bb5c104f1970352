SPECIFICATION Spec
CONSTANT Files <- UnaddressableFiles
INVARIANT AddressesExist

SPECIFICATION Spec
CONSTANT Scripts <- MCScripts
INVARIANT PlainRequestForwarded
